---- MODULE Spec2Model ----
(***************************************************************************)
(* A model of the request binder (package binder): Bind, BindStruct,       *)
(* parseBody, the setField coercion matrix and isEmptyValue.               *)
(*                                                                         *)
(* Strings are sequences of symbols (a symbol is one character, or an      *)
(* indivisible run of characters such as "omit"), so that slicing at a     *)
(* comma and substring search are computed, not assumed.                   *)
(* float64 values are integers counted in tenths (15 is 1.5).              *)
(***************************************************************************)
EXTENDS Integers, Sequences, FiniteSets, TLC

(***************************************************************************)
(* Strings                                                                 *)
(***************************************************************************)
path == "path"
query == "query"
body == "body"
jjson == "json"
cookie == "cookie"

Sources == <<path, query, body, jjson, cookie>>

omitempty == <<"omit", "empty">>

\* strings.Contains(s, sub)
Contains(s, sub) ==
  \E i \in 0..(Len(s) - Len(sub)) : \A j \in 1..Len(sub) : s[i + j] = sub[j]

\* strings.Index(s, ","), 1-based; 0 when there is no comma
IndexComma(s) ==
  IF \E i \in 1..Len(s) : s[i] = ","
    THEN CHOOSE i \in 1..Len(s) : s[i] = "," /\ \A j \in 1..(i - 1) : s[j] # ","
    ELSE 0

Digits == <<"0", "1", "2", "3", "4", "5", "6", "7", "8", "9">>

IsDigit(c) == \E i \in 1..Len(Digits) : Digits[i] = c

DigitOf(c) == (CHOOSE i \in 1..Len(Digits) : Digits[i] = c) - 1

AllDigits(s) == Len(s) > 0 /\ \A i \in 1..Len(s) : IsDigit(s[i])

RECURSIVE DigitsValue(_)
DigitsValue(s) ==
  IF s = <<>> THEN 0
  ELSE 10 * DigitsValue(SubSeq(s, 1, Len(s) - 1)) + DigitOf(s[Len(s)])

RECURSIVE NatDigits(_)
NatDigits(n) ==
  IF n < 10 THEN <<Digits[n + 1]>>
  ELSE NatDigits(n \div 10) \o <<Digits[(n % 10) + 1]>>

Abs(n) == IF n < 0 THEN 0 - n ELSE n

\* int64(v) of a float64 counted in tenths: truncation toward zero
Trunc(v) == IF v < 0 THEN 0 - ((0 - v) \div 10) ELSE v \div 10

\* fmt.Sprintf("%v", v) of a float64 counted in tenths
FormatFloat(v) ==
  (IF v < 0 THEN <<"-">> ELSE <<>>)
    \o NatDigits(Abs(v) \div 10)
    \o (IF Abs(v) % 10 = 0 THEN <<>> ELSE <<".", Digits[(Abs(v) % 10) + 1]>>)

(***************************************************************************)
(* Errors: an error is its message, a sequence of pieces; nil is <<>>.     *)
(***************************************************************************)
NoErr == <<>>

IsErr(e) == e # <<>>

Wrap(prefix, e) == prefix \o e

Mentions(e, piece) == \E i \in 1..Len(e) : e[i] = piece

\* a run-time panic travels as an error whose first piece is "panic"
Panic(msg) == <<"panic", msg>>

IsPanic(e) == Len(e) > 0 /\ e[1] = "panic"

(***************************************************************************)
(* strconv                                                                 *)
(***************************************************************************)
\* strconv.ParseInt(s, 10, 64)
ParseInt(s) ==
  LET signed == Len(s) > 0 /\ s[1] \in {"+", "-"}
      ds == IF signed THEN Tail(s) ELSE s
  IN IF AllDigits(ds)
       THEN [err |-> NoErr,
             val |-> IF signed /\ s[1] = "-" THEN 0 - DigitsValue(ds) ELSE DigitsValue(ds)]
       ELSE [err |-> <<"strconv.ParseInt: invalid syntax">>, val |-> 0]

\* strconv.ParseUint(s, 10, 64): no sign is accepted
ParseUint(s) ==
  IF AllDigits(s)
    THEN [err |-> NoErr, val |-> DigitsValue(s)]
    ELSE [err |-> <<"strconv.ParseUint: invalid syntax">>, val |-> 0]

\* strconv.ParseBool(s)
ParseBool(s) ==
  IF s \in {<<"1">>, <<"t">>, <<"T">>, <<"true">>, <<"TRUE">>, <<"True">>}
    THEN [err |-> NoErr, val |-> TRUE]
  ELSE IF s \in {<<"0">>, <<"f">>, <<"F">>, <<"false">>, <<"FALSE">>, <<"False">>}
    THEN [err |-> NoErr, val |-> FALSE]
  ELSE [err |-> <<"strconv.ParseBool: invalid syntax">>, val |-> FALSE]

\* strconv.ParseFloat(s, 64), for decimal literals with at most one
\* fractional digit; the result is counted in tenths
ParseFloat(s) ==
  LET signed == Len(s) > 0 /\ s[1] \in {"+", "-"}
      ds == IF signed THEN Tail(s) ELSE s
      dot == IF \E i \in 1..Len(ds) : ds[i] = "."
               THEN CHOOSE i \in 1..Len(ds) : ds[i] = "." ELSE 0
      ip == IF dot = 0 THEN ds ELSE SubSeq(ds, 1, dot - 1)
      fp == IF dot = 0 THEN <<"0">> ELSE SubSeq(ds, dot + 1, Len(ds))
      mag == 10 * DigitsValue(ip) + DigitsValue(fp)
  IN IF AllDigits(ip) /\ Len(fp) = 1 /\ AllDigits(fp)
       THEN [err |-> NoErr, val |-> IF signed /\ s[1] = "-" THEN 0 - mag ELSE mag]
       ELSE [err |-> <<"strconv.ParseFloat: invalid syntax">>, val |-> 0]

(***************************************************************************)
(* Destination types (reflect.Type) and destination values                 *)
(***************************************************************************)
TString == [k |-> "string"]
TInt == [k |-> "int"]
TUint == [k |-> "uint"]
TBool == [k |-> "bool"]
TFloat == [k |-> "float"]
TComplex == [k |-> "complex"]
TSlice(e) == [k |-> "slice", e |-> e]
TArray(e, n) == [k |-> "array", e |-> e, n |-> n]
TPtr(e) == [k |-> "ptr", e |-> e]
\* fs: the fields in declaration order; text: the type (through its pointer)
\* implements encoding.TextUnmarshaler; validator: it implements Validator
TStruct(fs, text, validator) ==
  [k |-> "struct", fs |-> fs, text |-> text, validator |-> validator]

NoTags == [s \in {path, query, body, jjson, cookie} |-> <<>>]

\* reflect.StructField: Name, Tag, Type
Field(name, tag, typ) == [Name |-> name, Tag |-> tag, Type |-> typ]

\* a tag lookup that gives a field without markers the query key a
TagGetFallback(field, key) ==
  IF field.Tag = NoTags /\ key = query THEN <<"a">> ELSE field.Tag[key]

\* reflect.StructTag.Get
TagGet(field, key) == field.Tag[key]

NumField(typ) == Len(typ.fs)

\* the zero value of a type; a nil pointer is <<>>, a pointer to v is <<v>>
RECURSIVE Zero(_)
Zero(typ) ==
  CASE typ.k \in {"string"} -> <<>>
    [] typ.k \in {"int", "uint", "float", "complex"} -> 0
    [] typ.k = "bool" -> FALSE
    [] typ.k = "slice" -> [isNil |-> TRUE, elems |-> <<>>]
    [] typ.k = "array" -> [i \in 1..typ.n |-> Zero(typ.e)]
    [] typ.k = "ptr" -> <<>>
    [] typ.k = "struct" -> [i \in 1..Len(typ.fs) |-> Zero(typ.fs[i].Type)]

\* an allocation that hands back a nil pointer
NewNil(typ) == <<>>

\* reflect.New(typ): a pointer to a fresh zero value
New(typ) == <<Zero(typ)>>

IsNilPtr(f) == f = <<>>

\* field.Type().Implements(TextUnmarshaler), or the addressable field's
\* pointer type does
ImplementsTextUnmarshaler(typ) ==
  \/ typ.k = "struct" /\ typ.text
  \/ typ.k = "ptr" /\ typ.e.k = "struct" /\ typ.e.text

(***************************************************************************)
(* Raw values (interface{}): what the request sources hand to the engine   *)
(***************************************************************************)
RNil == [t |-> "nil", v |-> 0]
RStr(s) == [t |-> "string", v |-> s]
RNum(n) == [t |-> "float64", v |-> n]
RInt(n) == [t |-> "int", v |-> n]
RBool(b) == [t |-> "bool", v |-> b]
RList(l) == [t |-> "[]interface {}", v |-> l]
RStrs(l) == [t |-> "[]string", v |-> l]
RMap(m) == [t |-> "map[string]interface {}", v |-> m]

EmptyMap == [kk \in {} |-> RNil]

\* v, exists = m[key]
MapHas(m, key) == key \in DOMAIN m

MapGet(m, key) == IF key \in DOMAIN m THEN m[key] ELSE RNil

\* isEmptyValue checks if a raw value is empty or zero
isEmptyValue(v) ==
  CASE v.t = "nil" -> TRUE
    [] v.t \in {"string", "[]interface {}", "[]string"} -> Len(v.v) = 0
    [] v.t = "map[string]interface {}" -> DOMAIN v.v = {}
    [] v.t = "bool" -> ~v.v
    [] v.t \in {"int", "float64"} -> v.v = 0

RECURSIVE FormatValue(_)
RECURSIVE FormatList(_)
\* fmt.Sprintf("%v", v)
FormatValue(v) ==
  CASE v.t = "string" -> v.v
    [] v.t = "float64" -> FormatFloat(v.v)
    [] v.t = "int" -> FormatFloat(10 * v.v)
    [] v.t = "bool" -> IF v.v THEN <<"true">> ELSE <<"false">>
    [] v.t = "nil" -> <<"<nil>">>
    [] v.t = "[]interface {}" -> <<"[">> \o FormatList(v.v) \o <<"]">>
    [] v.t = "[]string" -> <<"[">> \o FormatList([i \in 1..Len(v.v) |-> RStr(v.v[i])]) \o <<"]">>
    [] v.t = "map[string]interface {}" -> <<"map[", "]">>

FormatList(l) ==
  IF l = <<>> THEN <<>>
  ELSE IF Len(l) = 1 THEN FormatValue(l[1])
  ELSE FormatValue(l[1]) \o <<" ">> \o FormatList(Tail(l))

\* toString converts various types to string
toString(value) ==
  IF value.t = "string" THEN [err |-> NoErr, val |-> value.v]
  ELSE [err |-> NoErr, val |-> FormatValue(value)]

(***************************************************************************)
(* The coercion matrix.  Every setX takes the field's current value and    *)
(* returns [err, val]: the error and the field's value afterwards.         *)
(***************************************************************************)
\* the test suite's CustomTime.UnmarshalText: parse a date, store it
UnmarshalText(cur, text) ==
  IF text = <<"2024-01-02">>
    THEN [err |-> NoErr, val |-> <<text>>]
    ELSE [err |-> <<"parsing time: cannot parse">>, val |-> cur]

setString(cur, value) ==
  LET r == toString(value)
  IN IF IsErr(r.err) THEN [err |-> r.err, val |-> cur]
     ELSE [err |-> NoErr, val |-> r.val]

setInt(cur, value) ==
  CASE value.t = "int" -> [err |-> NoErr, val |-> value.v]
    [] value.t = "float64" -> [err |-> NoErr, val |-> Trunc(value.v)]
    [] value.t = "string" ->
         LET r == ParseInt(value.v)
         IN IF IsErr(r.err) THEN [err |-> r.err, val |-> cur]
            ELSE [err |-> NoErr, val |-> r.val]
    [] OTHER -> [err |-> <<"cannot convert ", value.t, " to int">>, val |-> cur]

\* a conversion that omits the sign checks
setUintUnchecked(cur, value) ==
  CASE value.t \in {"int", "float64"} ->
         [err |-> NoErr, val |-> IF value.t = "int" THEN value.v ELSE Trunc(value.v)]
    [] value.t = "string" ->
         LET r == ParseUint(value.v)
         IN IF IsErr(r.err) THEN [err |-> r.err, val |-> cur]
            ELSE [err |-> NoErr, val |-> r.val]
    [] OTHER -> [err |-> <<"cannot convert ", value.t, " to uint">>, val |-> cur]

setUint(cur, value) ==
  CASE value.t = "int" ->
         IF value.v < 0
           THEN [err |-> <<"cannot convert negative int to uint">>, val |-> cur]
           ELSE [err |-> NoErr, val |-> value.v]
    [] value.t = "float64" ->
         IF value.v < 0
           THEN [err |-> <<"cannot convert negative float to uint">>, val |-> cur]
           ELSE [err |-> NoErr, val |-> Trunc(value.v)]
    [] value.t = "string" ->
         LET r == ParseUint(value.v)
         IN IF IsErr(r.err) THEN [err |-> r.err, val |-> cur]
            ELSE [err |-> NoErr, val |-> r.val]
    [] OTHER -> [err |-> <<"cannot convert ", value.t, " to uint">>, val |-> cur]

setBool(cur, value) ==
  CASE value.t = "bool" -> [err |-> NoErr, val |-> value.v]
    [] value.t = "string" ->
         LET r == ParseBool(value.v)
         IN IF IsErr(r.err) THEN [err |-> r.err, val |-> cur]
            ELSE [err |-> NoErr, val |-> r.val]
    [] value.t \in {"int", "float64"} -> [err |-> NoErr, val |-> value.v # 0]
    [] OTHER -> [err |-> <<"cannot convert ", value.t, " to bool">>, val |-> cur]

setFloat(cur, value) ==
  CASE value.t = "float64" -> [err |-> NoErr, val |-> value.v]
    [] value.t = "int" -> [err |-> NoErr, val |-> 10 * value.v]
    [] value.t = "string" ->
         LET r == ParseFloat(value.v)
         IN IF IsErr(r.err) THEN [err |-> r.err, val |-> cur]
            ELSE [err |-> NoErr, val |-> r.val]
    [] OTHER -> [err |-> <<"cannot convert ", value.t, " to float">>, val |-> cur]

RECURSIVE setField(_, _, _)
RECURSIVE setSliceLoop(_, _, _, _)
RECURSIVE setStructLoop(_, _, _, _)

\* the type setSlice builds an element as: the element type, or what it
\* points to when the elements are pointers
elemType(typ) == IF typ.e.k = "ptr" THEN typ.e.e ELSE typ.e

\* the rest of one turn of setSlice's loop, r being what setField returned
\* for element i
setSliceElem(typ, v, i, s, r) ==
  IF IsPanic(r.err) THEN [err |-> r.err, val |-> s]
  ELSE IF IsErr(r.err)
    THEN [err |-> Wrap(<<"error setting slice element at index ">>
                        \o NatDigits(i - 1) \o <<": ">>, r.err),
          val |-> s]
  ELSE setSliceLoop(typ, v, i + 1,
                    Append(s, IF typ.e.k = "ptr" THEN <<r.val>> ELSE r.val))

\* the loop of setSlice from index i on; s holds the elements built so far
setSliceLoop(typ, v, i, s) ==
  IF i > Len(v) THEN [err |-> NoErr, val |-> s]
  ELSE setSliceElem(typ, v, i, s, setField(Zero(elemType(typ)), elemType(typ), v[i]))

\* an end of setSlice that keeps the elements built before the failure
setSliceSetPartial(cur, r) ==
  [err |-> r.err, val |-> [isNil |-> FALSE, elems |-> r.val]]

\* an end of setSlice that adds the new elements to the ones already there
setSliceSetAppend(cur, r) ==
  IF IsErr(r.err) THEN [err |-> r.err, val |-> cur]
  ELSE [err |-> NoErr, val |-> [isNil |-> FALSE, elems |-> cur.elems \o r.val]]

\* the end of setSlice, r being what the loop returned: the field is set
\* only when every element was built
setSliceSet(cur, r) ==
  IF IsErr(r.err) THEN [err |-> r.err, val |-> cur]
  ELSE [err |-> NoErr, val |-> [isNil |-> FALSE, elems |-> r.val]]

\* setSlice sets a slice value to a field
setSlice(cur, typ, value) ==
  IF value.t = "[]interface {}"
    THEN setSliceSet(cur, setSliceLoop(typ, value.v, 1, <<>>))
  ELSE IF typ.e.k = "string" /\ value.t = "string"
    THEN [err |-> NoErr, val |-> [isNil |-> FALSE, elems |-> <<value.v>>]]
  ELSE [err |-> <<"cannot convert ", value.t, " to slice">>, val |-> cur]

\* the rest of one turn of setStruct's loop, r being what setField returned
\* for field x
setStructField(cur, typ, structMap, x, r) ==
  IF IsPanic(r.err) THEN [err |-> r.err, val |-> [cur EXCEPT ![x] = r.val]]
  ELSE IF IsErr(r.err)
    THEN [err |-> Wrap(<<"error setting nested field '", typ.fs[x].Name, "': ">>, r.err),
          val |-> [cur EXCEPT ![x] = r.val]]
  ELSE setStructLoop([cur EXCEPT ![x] = r.val], typ, structMap, x + 1)

\* the loop of setStruct from field x on; cur holds the fields set so far
setStructLoop(cur, typ, structMap, x) ==
  IF x > NumField(typ) THEN [err |-> NoErr, val |-> cur]
  ELSE LET nestedStructType == typ.fs[x]
           tagValue == IF TagGet(nestedStructType, body) # <<>>
                         THEN TagGet(nestedStructType, body)
                         ELSE TagGet(nestedStructType, jjson)
       IN IF tagValue # <<>> /\ MapHas(structMap, tagValue)
            THEN setStructField(cur, typ, structMap, x,
                                setField(cur[x], nestedStructType.Type, structMap[tagValue]))
            ELSE setStructLoop(cur, typ, structMap, x + 1)

\* setStruct sets a struct value to a field
setStruct(cur, typ, value) ==
  IF value.t = "map[string]interface {}"
    THEN setStructLoop(cur, typ, value.v, 1)
  ELSE [err |-> <<"cannot set struct field with value of type ", value.t>>, val |-> cur]

\* a pointer field after the value it points to was set: r is what
\* setting the value returned
addrOf(r) == [err |-> r.err, val |-> <<r.val>>]

\* setField sets the appropriate value on the given field
setField(cur, typ, value) ==
  IF value.t = "nil" THEN [err |-> NoErr, val |-> cur]
  ELSE IF ImplementsTextUnmarshaler(typ)
    THEN IF value.t # "string"
           THEN [err |-> <<"value is not a string for TextUnmarshaler">>, val |-> cur]
         ELSE IF typ.k = "ptr"
           THEN IF IsNilPtr(cur)
                  THEN LET r == UnmarshalText(Zero(typ.e), value.v)
                       IN IF IsErr(r.err) THEN [err |-> r.err, val |-> cur]
                          ELSE [err |-> Panic("nil pointer dereference"), val |-> cur]
                  ELSE addrOf(UnmarshalText(cur[1], value.v))
         ELSE UnmarshalText(cur, value.v)
  ELSE CASE typ.k = "string" -> setString(cur, value)
         [] typ.k = "int" -> setInt(cur, value)
         [] typ.k = "float" -> setFloat(cur, value)
         [] typ.k = "bool" -> setBool(cur, value)
         [] typ.k = "uint" -> setUint(cur, value)
         [] typ.k = "slice" -> setSlice(cur, typ, value)
         [] typ.k = "array" ->
              [err |-> <<"arrays are not supported, use slices instead">>, val |-> cur]
         [] typ.k = "struct" -> setStruct(cur, typ, value)
         [] typ.k = "ptr" ->
              addrOf(setField(IF IsNilPtr(cur) THEN Zero(typ.e) ELSE cur[1], typ.e, value))
         [] OTHER -> [err |-> <<"unsupported type: ", typ.k>>, val |-> cur]

RECURSIVE BindStructLoop(_, _, _, _)
\* the rest of one turn of BindStruct's loop, r being what setField
\* returned for field i
BindStructField(target, typ, data, i, r) ==
  IF IsPanic(r.err) THEN [err |-> r.err, val |-> [target EXCEPT ![i] = r.val]]
  ELSE IF IsErr(r.err)
    THEN [err |-> Wrap(<<"error setting nested field ", typ.fs[i].Name, ": ">>, r.err),
          val |-> [target EXCEPT ![i] = r.val]]
  ELSE BindStructLoop([target EXCEPT ![i] = r.val], typ, data, i + 1)

\* a loop of BindStruct that knows the body marker only
BindStructLoopBodyOnly(target, typ, data, i) ==
  IF i > NumField(typ) THEN [err |-> NoErr, val |-> target]
  ELSE LET fieldType == typ.fs[i]
           tag == TagGet(fieldType, body)
       IN IF tag = <<>> \/ ~MapHas(data, tag)
            THEN BindStructLoop(target, typ, data, i + 1)
            ELSE LET nestedField == IF fieldType.Type.k = "ptr" /\ IsNilPtr(target[i])
                                      THEN New(fieldType.Type.e) ELSE target[i]
                 IN BindStructField(target, typ, data, i,
                                    setField(nestedField, fieldType.Type, data[tag]))

\* the loop of BindStruct from field i on
BindStructLoop(target, typ, data, i) ==
  IF i > NumField(typ) THEN [err |-> NoErr, val |-> target]
  ELSE LET fieldType == typ.fs[i]
           tag == IF TagGet(fieldType, body) # <<>> THEN TagGet(fieldType, body)
                  ELSE TagGet(fieldType, jjson)
       IN IF tag = <<>> \/ ~MapHas(data, tag)
            THEN BindStructLoop(target, typ, data, i + 1)
            ELSE LET nestedField == IF fieldType.Type.k = "ptr" /\ IsNilPtr(target[i])
                                      THEN New(fieldType.Type.e) ELSE target[i]
                 IN BindStructField(target, typ, data, i,
                                    setField(nestedField, fieldType.Type, data[tag]))

\* BindStruct binds data from a map to a struct field (or a pointer to one)
BindStruct(field, ftyp, data) ==
  IF ftyp.k = "ptr"
    THEN LET target == IF IsNilPtr(field) THEN Zero(ftyp.e) ELSE field[1]
         IN IF ftyp.e.k # "struct"
              THEN [err |-> Panic("reflect: NumField of non-struct type"), val |-> <<target>>]
              ELSE addrOf(BindStructLoop(target, ftyp.e, data, 1))
  ELSE IF ftyp.k # "struct"
    THEN [err |-> Panic("reflect: NumField of non-struct type"), val |-> field]
  ELSE BindStructLoop(field, ftyp, data, 1)

(***************************************************************************)
(* The request (http.Request) and the body decoders                        *)
(***************************************************************************)
\* a body is a sequence of tokens: the delimiters and members of one JSON
\* object, the pairs of a form encoding, or a malformed run of bytes
TokOpen == [tok |-> "{", k |-> <<>>, v |-> [j |-> "null", v |-> 0], s |-> <<>>]
TokClose == [tok |-> "}", k |-> <<>>, v |-> [j |-> "null", v |-> 0], s |-> <<>>]
TokMember(k, jv) == [tok |-> "member", k |-> k, v |-> jv, s |-> <<>>]
TokPair(k, s) == [tok |-> "pair", k |-> k, v |-> [j |-> "null", v |-> 0], s |-> s]
TokBad == [tok |-> "bad", k |-> <<>>, v |-> [j |-> "null", v |-> 0], s |-> <<>>]

\* JSON literals
JStr(s) == [j |-> "str", v |-> s]
JNum(n) == [j |-> "num", v |-> n]
JBool(b) == [j |-> "bool", v |-> b]
JNull == [j |-> "null", v |-> 0]
JArr(l) == [j |-> "arr", v |-> l]
JObj(members) == [j |-> "obj", v |-> members]

\* r.PathValue(name)
PathValue(r, name) ==
  IF name \in DOMAIN r.PathValues THEN r.PathValues[name] ELSE <<>>

\* r.URL.Query().Get(key): the first value, "" when there is none
QueryGet(r, key) ==
  IF key \in DOMAIN r.Query /\ Len(r.Query[key]) > 0 THEN r.Query[key][1] ELSE <<>>

\* a cookie lookup that does not see a cookie whose value is empty
CookieNonEmpty(r, name) ==
  IF name \in DOMAIN r.Cookies /\ r.Cookies[name] # <<>>
    THEN [err |-> NoErr, Value |-> r.Cookies[name]]
    ELSE [err |-> <<"http: named cookie not present">>, Value |-> <<>>]

\* r.Cookie(name)
Cookie(r, name) ==
  IF name \in DOMAIN r.Cookies
    THEN [err |-> NoErr, Value |-> r.Cookies[name]]
    ELSE [err |-> <<"http: named cookie not present">>, Value |-> <<>>]

RECURSIVE Split(_, _)
\* strings.Split(s, sep) for a one-symbol separator
Split(s, sep) ==
  IF \E i \in 1..Len(s) : s[i] = sep
    THEN LET i == CHOOSE n \in 1..Len(s) : s[n] = sep /\ \A m \in 1..(n - 1) : s[m] # sep
         IN <<SubSeq(s, 1, i - 1)>> \o Split(SubSeq(s, i + 1, Len(s)), sep)
    ELSE <<s>>

RECURSIVE TrimSpace(_)
\* strings.TrimSpace
TrimSpace(s) ==
  IF Len(s) > 0 /\ s[1] = " " THEN TrimSpace(Tail(s))
  ELSE IF Len(s) > 0 /\ s[Len(s)] = " " THEN TrimSpace(SubSeq(s, 1, Len(s) - 1))
  ELSE s

\* strings.ToLower, symbol by symbol
ToLower(s) ==
  [i \in 1..Len(s) |->
     CASE s[i] = "APPLICATION/JSON" -> "application/json"
       [] s[i] = "Application/Json" -> "application/json"
       [] s[i] = "APPLICATION/X-WWW-FORM-URLENCODED" -> "application/x-www-form-urlencoded"
       [] OTHER -> s[i]]

RECURSIVE parseContentTypeLoop(_)
parseContentTypeLoop(parts) ==
  IF parts = <<>> THEN <<>>
  ELSE LET part == TrimSpace(Head(parts))
       IN IF ~Contains(part, <<"=">>) THEN ToLower(part)
          ELSE parseContentTypeLoop(Tail(parts))

\* parseContentType extracts the content type from the Content-Type header
parseContentType(header) == parseContentTypeLoop(Split(header, ";"))

RECURSIVE DecodeValue(_)
RECURSIVE DecodeMembers(_, _)
\* encoding/json into interface{}: numbers become float64
DecodeValue(jv) ==
  CASE jv.j = "str" -> RStr(jv.v)
    [] jv.j = "num" -> RNum(jv.v)
    [] jv.j = "bool" -> RBool(jv.v)
    [] jv.j = "null" -> RNil
    [] jv.j = "arr" -> RList([i \in 1..Len(jv.v) |-> DecodeValue(jv.v[i])])
    [] jv.j = "obj" -> RMap(DecodeMembers(jv.v, EmptyMap))

\* members are [k, v]; a later duplicate key replaces an earlier one
DecodeMembers(members, m) ==
  IF members = <<>> THEN m
  ELSE LET h == Head(members)
           d == DecodeValue(h.v)
       IN DecodeMembers(Tail(members),
                        [kk \in (DOMAIN m) \cup {h.k} |-> IF kk = h.k THEN d ELSE m[kk]])

\* json.NewDecoder(r.Body).Decode(&reqBody): the first JSON value of the
\* stream, which has to be an object; what follows it is not looked at
DecodeJSON(bytes) ==
  IF bytes = <<>> THEN [err |-> <<"EOF">>, m |-> EmptyMap]
  ELSE IF bytes[1].tok # "{"
    THEN [err |-> <<"invalid character">>, m |-> EmptyMap]
  ELSE IF ~\E i \in 2..Len(bytes) : bytes[i].tok = "}"
    THEN [err |-> <<"unexpected EOF">>, m |-> EmptyMap]
  ELSE LET close == CHOOSE i \in 2..Len(bytes) :
                      bytes[i].tok = "}" /\ \A n \in 2..(i - 1) : bytes[n].tok # "}"
           inner == SubSeq(bytes, 2, close - 1)
       IN IF \E i \in 1..Len(inner) : inner[i].tok # "member"
            THEN [err |-> <<"invalid character">>, m |-> EmptyMap]
            ELSE [err |-> NoErr, m |-> DecodeMembers(inner, EmptyMap)]

\* url.QueryUnescape, symbol by symbol
Unescape(s) ==
  [i \in 1..Len(s) |->
     CASE s[i] = "+" -> " "
       [] s[i] = "%2C" -> ","
       [] OTHER -> s[i]]

RECURSIVE PostFormOf(_, _)
\* url.ParseQuery over the body: PostForm maps a name to its values in order
PostFormOf(bytes, form) ==
  IF bytes = <<>> THEN form
  ELSE LET h == Head(bytes)
           key == IF h.tok = "pair" THEN Unescape(h.k) ELSE <<h.tok>>
           val == IF h.tok = "pair" THEN Unescape(h.s) ELSE <<>>
       IN IF h.tok = "bad" THEN PostFormOf(Tail(bytes), form)
          ELSE PostFormOf(Tail(bytes),
                          [kk \in (DOMAIN form) \cup {key} |->
                             IF kk \in DOMAIN form
                               THEN IF kk = key THEN Append(form[kk], val) ELSE form[kk]
                               ELSE <<val>>])

\* r.ParseForm(): the body is parsed for POST, PUT and PATCH only
ParseForm(method, bytes) ==
  IF method \notin {"POST", "PUT", "PATCH"}
    THEN [err |-> NoErr, PostForm |-> [kk \in {} |-> <<>>]]
  ELSE [err |-> IF \E i \in 1..Len(bytes) : bytes[i].tok = "bad"
                  THEN <<"invalid URL escape">> ELSE NoErr,
        PostForm |-> PostFormOf(bytes, [kk \in {} |-> <<>>])]

\* a parseBody that decodes every body as JSON, whatever its content type
parseBodySniff(r, bytes) == [err |-> NoErr, m |-> DecodeJSON(bytes).m]

\* parseBody extracts and parses the request body into a map
parseBody(r, bytes) ==
  LET ct == parseContentType(r.ContentType)
  IN CASE ct = <<"application/json">> ->
            LET d == DecodeJSON(bytes)
            IN IF IsErr(d.err)
                 THEN [err |-> Wrap(<<"failed to decode JSON body: ">>, d.err), m |-> EmptyMap]
                 ELSE [err |-> NoErr, m |-> d.m]
       [] ct = <<"application/x-www-form-urlencoded">> ->
            LET f == ParseForm(r.Method, bytes)
            IN IF IsErr(f.err)
                 THEN [err |-> Wrap(<<"failed to parse form data: ">>, f.err), m |-> EmptyMap]
                 ELSE [err |-> NoErr,
                       m |-> [kk \in DOMAIN f.PostForm |->
                                IF Len(f.PostForm[kk]) = 1 THEN RStr(f.PostForm[kk][1])
                                ELSE RStrs(f.PostForm[kk])]]
       [] OTHER -> [err |-> NoErr, m |-> EmptyMap]

(***************************************************************************)
(* Bind                                                                    *)
(***************************************************************************)
\* io.ReadAll(stream): everything the stream still holds
ReadAll(streams, id) == streams[id]

\* a reader that loses the last piece of the bytes it is given
NewBufferShort(bodyBytes) == SubSeq(bodyBytes, 1, Len(bodyBytes) - 1)

\* bytes.NewBuffer(bodyBytes): what a fresh reader over the bytes holds
NewBuffer(bodyBytes) == bodyBytes

\* a body handling that reads r.Body and does not put the bytes back
BodyStageNoRestore(r, streams) ==
  IF r.Body # 0 /\ r.ContentLength > 0
    THEN LET bodyBytes == ReadAll(streams, r.Body)
             parsed == parseBody(r, bodyBytes)
         IN [r |-> r, streams |-> [streams EXCEPT ![r.Body] = <<>>],
             b |-> IF IsErr(parsed.err) THEN EmptyMap ELSE parsed.m]
    ELSE [r |-> r, streams |-> streams, b |-> EmptyMap]

\* Bind's body handling: read r.Body once, put a fresh reader over the bytes
\* back into r.Body, parse a copy of the request.  Returns the request and
\* the streams afterwards and the body map b.
BodyStage(r, streams) ==
  IF r.Body # 0 /\ r.ContentLength > 0
    THEN LET bodyBytes == ReadAll(streams, r.Body)
             drained == [streams EXCEPT ![r.Body] = <<>>]
             parsed == parseBody(r, NewBuffer(bodyBytes))
         IN [r |-> [r EXCEPT !.Body = Len(streams) + 1],
             streams |-> Append(drained, NewBuffer(bodyBytes)),
             b |-> IF IsErr(parsed.err) THEN EmptyMap ELSE parsed.m]
    ELSE [r |-> r, streams |-> streams, b |-> EmptyMap]

\* the omitEmpty flag Bind computes for a field
omitEmptyOf(field) ==
  Contains(TagGet(field, path) \o TagGet(field, query) \o TagGet(field, body)
             \o TagGet(field, jjson) \o TagGet(field, cookie),
           omitempty)

\* the query parameter name: the tag up to its first comma
paramNameOf(queryTag) ==
  IF IndexComma(queryTag) # 0 THEN SubSeq(queryTag, 1, IndexComma(queryTag) - 1)
  ELSE queryTag

\* a switch whose cases are tried in the opposite order
LowestSource(field) ==
  IF TagGet(field, cookie) # <<>> THEN cookie
  ELSE IF TagGet(field, jjson) # <<>> THEN jjson
  ELSE IF TagGet(field, body) # <<>> THEN body
  ELSE IF TagGet(field, query) # <<>> THEN query
  ELSE IF TagGet(field, path) # <<>> THEN path
  ELSE ""

\* the case of Bind's switch that a field takes: the first of path, query,
\* body, json, cookie whose tag is not empty; "" is the default case
WinningSource(field) ==
  IF TagGet(field, path) # <<>> THEN path
  ELSE IF TagGet(field, query) # <<>> THEN query
  ELSE IF TagGet(field, body) # <<>> THEN body
  ELSE IF TagGet(field, jjson) # <<>> THEN jjson
  ELSE IF TagGet(field, cookie) # <<>> THEN cookie
  ELSE ""

\* the switch of Bind: the raw value v of a field and whether it exists;
\* tagged is FALSE in the default case (no recognized marker)
ResolveSource(r, b, field) ==
  LET src == WinningSource(field)
      pathTag == TagGet(field, path)
      queryTag == TagGet(field, query)
      bodyTag == TagGet(field, body)
      jsonTag == TagGet(field, jjson)
      cookieTag == TagGet(field, cookie)
  IN CASE src = path ->
            [tagged |-> TRUE, v |-> RStr(PathValue(r, pathTag)),
             exists |-> PathValue(r, pathTag) # <<>>]
       [] src = query ->
            [tagged |-> TRUE, v |-> RStr(QueryGet(r, paramNameOf(queryTag))),
             exists |-> QueryGet(r, paramNameOf(queryTag)) # <<>>]
       [] src = body ->
            [tagged |-> TRUE, v |-> MapGet(b, bodyTag), exists |-> MapHas(b, bodyTag)]
       [] src = jjson ->
            [tagged |-> TRUE, v |-> MapGet(b, jsonTag), exists |-> MapHas(b, jsonTag)]
       [] src = cookie ->
            LET c == Cookie(r, cookieTag)
            IN IF c.err = NoErr
                 THEN [tagged |-> TRUE, v |-> RStr(c.Value), exists |-> TRUE]
                 ELSE [tagged |-> TRUE, v |-> RNil, exists |-> FALSE]
       [] OTHER -> [tagged |-> FALSE, v |-> RNil, exists |-> FALSE]

\* whether Bind skips the field: no marker, no value, or omitted as empty
SkipField(res, field) ==
  ~res.tagged \/ ~res.exists \/ (omitEmptyOf(field) /\ isEmptyValue(res.v))

\* the error Bind returns for a field: what binding or setting it returned,
\* behind the prefix and the field's name
fieldError(prefix, field, res) ==
  IF IsErr(res.err) /\ ~IsPanic(res.err)
    THEN [err |-> Wrap(<<prefix, field.Name, ": ">>, res.err), val |-> res.val]
    ELSE res

\* a field step that passes over array fields instead of refusing them
BindFieldLenient(f, field, v) ==
  LET typ == field.Type
      f1 == IF typ.k = "ptr" /\ IsNilPtr(f) THEN New(typ.e) ELSE f
      nested == typ.k = "struct" \/ (typ.k = "ptr" /\ typ.e.k = "struct")
  IN IF typ.k = "array" THEN [err |-> NoErr, val |-> f]
     ELSE IF nested /\ v.t = "map[string]interface {}"
       THEN fieldError("error binding nested field ", field, BindStruct(f1, typ, v.v))
       ELSE fieldError("error setting field ", field, setField(f1, typ, v))

\* what Bind does to a field it does not skip: allocate a nil pointer,
\* recurse into a nested struct given a map, otherwise setField
BindField(f, field, v) ==
  LET typ == field.Type
      f1 == IF typ.k = "ptr" /\ IsNilPtr(f) THEN New(typ.e) ELSE f
      nested == typ.k = "struct" \/ (typ.k = "ptr" /\ typ.e.k = "struct")
  IN IF nested /\ v.t = "map[string]interface {}"
       THEN fieldError("error binding nested field ", field, BindStruct(f1, typ, v.v))
       ELSE fieldError("error setting field ", field, setField(f1, typ, v))

RECURSIVE BindLoop(_, _, _, _, _)

\* the end of one turn of Bind's field loop, bf being what BindField
\* returned for field x: an error ends the loop, the field keeps what was set
BindSet(typ, val, r, b, x, bf) ==
  IF IsErr(bf.err) THEN [err |-> bf.err, val |-> [val EXCEPT ![x] = bf.val]]
  ELSE BindLoop(typ, [val EXCEPT ![x] = bf.val], r, b, x + 1)

\* one turn of Bind's field loop, res being what the switch found for
\* field x: the field is skipped or bound
BindTurn(typ, val, r, b, x, res) ==
  IF SkipField(res, typ.fs[x]) THEN BindLoop(typ, val, r, b, x + 1)
  ELSE BindSet(typ, val, r, b, x, BindField(val[x], typ.fs[x], res.v))

RECURSIVE BindLoopKeepGoing(_, _, _, _, _)
\* a field loop that notes the error of a field and goes on to the next
BindLoopKeepGoing(typ, val, r, b, x) ==
  IF x > NumField(typ) THEN [err |-> NoErr, val |-> val]
  ELSE LET field == typ.fs[x]
           res == ResolveSource(r, b, field)
       IN IF SkipField(res, field) THEN BindLoopKeepGoing(typ, val, r, b, x + 1)
          ELSE LET bf == BindField(val[x], field, res.v)
                   rest == BindLoopKeepGoing(typ, [val EXCEPT ![x] = bf.val], r, b, x + 1)
               IN IF IsErr(bf.err) THEN [err |-> bf.err, val |-> rest.val] ELSE rest

\* the field loop of Bind from field x on; val is the destination so far
BindLoop(typ, val, r, b, x) ==
  IF x > NumField(typ) THEN [err |-> NoErr, val |-> val]
  ELSE BindTurn(typ, val, r, b, x, ResolveSource(r, b, typ.fs[x]))

\* a validation step that drops the error Validate returns
RunValidationSwallow(typ, vfail) ==
  [validated |-> IF typ.validator THEN 1 ELSE 0, err |-> NoErr]

\* the validation step: vfail is what the destination's Validate returns
RunValidation(typ, vfail) ==
  IF typ.validator
    THEN [validated |-> 1,
          err |-> IF vfail THEN <<"validation failed: ", "invalid destination">> ELSE NoErr]
    ELSE [validated |-> 0, err |-> NoErr]

\* the outcome of a Bind call that went wrong before any field was looked at
BindAbort(e, i, r, streams, b, bodyStage) ==
  [err |-> e, val |-> i.val, r |-> r, streams |-> streams, b |-> b,
   bodyStage |-> bodyStage, validated |-> 0]

\* an end of Bind that validates whatever the field loop returned
BindFieldsAlways(i, vfail, bs, fl) ==
  LET rv == RunValidation(i.typ, vfail)
  IN [err |-> IF IsErr(fl.err) THEN fl.err ELSE rv.err, val |-> fl.val, r |-> bs.r,
      streams |-> bs.streams, b |-> bs.b, bodyStage |-> TRUE, validated |-> rv.validated]

\* the end of Bind, fl being what the field loop returned: validation runs
\* only when no field failed
BindFields(i, vfail, bs, fl) ==
  LET rv == IF IsErr(fl.err) THEN [validated |-> 0, err |-> fl.err]
            ELSE RunValidation(i.typ, vfail)
  IN [err |-> rv.err, val |-> fl.val, r |-> bs.r, streams |-> bs.streams,
      b |-> bs.b, bodyStage |-> TRUE, validated |-> rv.validated]

\* Bind after the body handling bs: the fields of the destination are
\* counted and bound
BindTarget(i, vfail, bs) ==
  IF i.typ.k # "struct"
    THEN BindAbort(Panic("reflect: NumField of non-struct type"),
                   i, bs.r, bs.streams, bs.b, TRUE)
  ELSE IF i.kind = "nilptr"
    THEN IF NumField(i.typ) > 0 \/ i.typ.validator
           THEN BindAbort(Panic("reflect: call of reflect.Value.Field on zero Value"),
                          i, bs.r, bs.streams, bs.b, TRUE)
           ELSE BindAbort(NoErr, i, bs.r, bs.streams, bs.b, TRUE)
  ELSE BindFields(i, vfail, bs, BindLoop(i.typ, i.val, bs.r, bs.b, 1))

\* Bind(r, i).  i is [kind, typ, val]: kind "ptr" is a pointer to a value
\* val of type typ, "nilptr" a nil pointer to typ, "value" a non-pointer,
\* "nil" the nil interface.
Bind(r, streams, i, vfail) ==
  IF i.kind = "nil"
    THEN BindAbort(Panic("nil pointer dereference"), i, r, streams, EmptyMap, FALSE)
  ELSE IF i.kind = "value"
    THEN BindAbort(Panic("reflect: Elem of invalid type"), i, r, streams, EmptyMap, FALSE)
  ELSE BindTarget(i, vfail, BodyStage(r, streams))

(***************************************************************************)
(* The field cache: getFieldInfo                                           *)
(***************************************************************************)
\* the source getFieldInfo records for a field: the first of path, query,
\* body, json, cookie whose tag is not empty; "" when the field has none
infoSource(field) ==
  IF TagGet(field, path) # <<>> THEN path
  ELSE IF TagGet(field, query) # <<>> THEN query
  ELSE IF TagGet(field, body) # <<>> THEN body
  ELSE IF TagGet(field, jjson) # <<>> THEN jjson
  ELSE IF TagGet(field, cookie) # <<>> THEN cookie
  ELSE ""

\* the fieldInfo of the field at index i (counted from 0)
fieldInfo(i, field) ==
  [Index |-> i, FieldType |-> field, Source |-> infoSource(field),
   TagName |-> TagGet(field, infoSource(field)),
   OmitEmpty |-> Contains(TagGet(field, infoSource(field)), omitempty)]

\* the map getFieldInfo builds for a struct type, keyed by field name; a
\* field without a recognized tag has no entry
buildFieldInfo(typ) ==
  [name \in {typ.fs[x].Name : x \in {y \in 1..NumField(typ) : infoSource(typ.fs[y]) # ""}} |->
     LET x == CHOOSE y \in 1..NumField(typ) : typ.fs[y].Name = name
     IN fieldInfo(x - 1, typ.fs[x])]

\* fieldCache[typ] = info
cacheStore(cache, typ, info) ==
  [t \in (DOMAIN cache) \cup {typ} |-> IF t = typ THEN info ELSE cache[t]]

(***************************************************************************)
(* The inputs: destination types, destinations and requests                *)
(***************************************************************************)
\* the number of Bind calls made on one request
MaxBinds == 2

Ka == <<"a">>
Kb == <<"b">>

\* the tag values `K`, `K,omitempty` and `K,required`
Opt(k) == k \o <<",">> \o omitempty
Req(k) == k \o <<",", "required">>

Tag1(src, s) == [NoTags EXCEPT ![src] = s]
Tag2(s1, v1, s2, v2) == [NoTags EXCEPT ![s1] = v1, ![s2] = v2]

SrcSet == {path, query, body, jjson, cookie}

\* the rank of a source in the order path, query, body, json, cookie
Prec(src) == CHOOSE n \in 1..Len(Sources) : Sources[n] = src

TagChoices ==
  {Tag1(src, Ka) : src \in SrcSet}
    \cup {Tag1(src, Opt(Ka)) : src \in SrcSet}
    \cup {Tag1(src, Req(Ka)) : src \in {query, body}}
    \cup {Tag2(p[1], Ka, p[2], Ka) : p \in {q \in SrcSet \X SrcSet : Prec(q[1]) < Prec(q[2])}}
    \cup {Tag2(query, Ka, body, Opt(Ka)), Tag2(body, Ka, cookie, Opt(Ka))}
    \cup {Tag1(body, omitempty), Tag1(query, omitempty)}
    \cup {NoTags}

\* a nested record: two body-sourced sub-fields and a query-sourced one
Nested ==
  TStruct(<<Field("Email", Tag1(body, Ka), TString),
            Field("Count", Tag1(jjson, Kb), TInt),
            Field("Q", Tag1(query, Ka), TString)>>, FALSE, FALSE)

\* a nested record with an optional sub-field
NestedOpt ==
  TStruct(<<Field("Flag", Tag1(body, Ka), TPtr(TBool)),
            Field("Count", Tag1(jjson, Kb), TInt)>>, FALSE, FALSE)

\* the test suite's CustomTime: a struct whose pointer has UnmarshalText
CustomTime == TStruct(<<Field("Time", NoTags, TString)>>, TRUE, FALSE)

OtherKinds ==
  {TUint, TBool, TFloat, TComplex, TSlice(TInt), TSlice(TString), TSlice(TPtr(TInt)),
   TArray(TInt, 2), Nested, TPtr(Nested), NestedOpt, TPtr(TBool), CustomTime,
   TPtr(CustomTime)}

OneFieldTypes ==
  {TStruct(<<Field("F1", tg, ty)>>, FALSE, FALSE) : tg \in TagChoices, ty \in {TString, TInt}}
    \cup {TStruct(<<Field("F1", tg, ty)>>, FALSE, FALSE) :
            tg \in {Tag1(body, Ka), Tag1(body, Opt(Ka)), Tag1(query, Ka)}, ty \in OtherKinds}

FieldShapes ==
  {[Tag |-> Tag1(query, Ka), Type |-> TInt], [Tag |-> Tag1(body, Ka), Type |-> TString],
   [Tag |-> Tag1(cookie, Ka), Type |-> TInt], [Tag |-> NoTags, Type |-> TString]}

ThreeFieldTypes ==
  {TStruct(<<Field("F1", f[1].Tag, f[1].Type), Field("F2", f[2].Tag, f[2].Type),
             Field("F3", f[3].Tag, f[3].Type)>>, FALSE, v) :
     f \in FieldShapes \X FieldShapes \X FieldShapes, v \in BOOLEAN}

DestTypes == OneFieldTypes \cup ThreeFieldTypes

\* a value of the type that no request of the model binds
RECURSIVE Sentinel(_)
Sentinel(typ) ==
  CASE typ.k = "string" -> <<"sentinel">>
    [] typ.k \in {"int", "uint", "complex"} -> 999
    [] typ.k = "float" -> 9990
    [] typ.k = "bool" -> TRUE
    [] typ.k = "slice" -> [isNil |-> FALSE, elems |-> <<Sentinel(typ.e)>>]
    [] typ.k = "array" -> [n \in 1..typ.n |-> Sentinel(typ.e)]
    [] typ.k = "ptr" -> <<Sentinel(typ.e)>>
    [] typ.k = "struct" -> [n \in 1..Len(typ.fs) |-> Sentinel(typ.fs[n].Type)]

\* the second argument of Bind: [kind, typ, pre]; pre names the value the
\* destination holds before the call
Targets ==
  {[kind |-> "ptr", typ |-> t, pre |-> p] : t \in DestTypes, p \in {"zero", "sentinel"}}
    \cup {[kind |-> k, typ |-> TInt, pre |-> "zero"] : k \in {"ptr", "value", "nil"}}
    \cup {[kind |-> k, typ |-> TStruct(<<Field("F1", Tag1(query, Ka), TInt)>>, FALSE, FALSE),
           pre |-> "zero"] : k \in {"value", "nilptr"}}

PreValue(t) == IF t.pre = "zero" THEN Zero(t.typ) ELSE Sentinel(t.typ)

NoValues == [kk \in {} |-> <<>>]

PathChoices == {NoValues, Ka :> <<"1">>}
QueryChoices == {NoValues, Ka :> <<(<<>>)>>, Ka :> <<(<<"2">>)>>, Ka :> <<(<<"x">>), (<<"2">>)>>}
CookieChoices == {NoValues, Ka :> <<>>, Ka :> <<"4">>}

JSONBody(members) ==
  [isNil |-> FALSE, Method |-> "POST", ContentType |-> <<"application/json">>,
   ContentLength |-> Len(members) + 2, bytes |-> <<TokOpen>> \o members \o <<TokClose>>]

JVals ==
  <<JStr(<<"3">>), JStr(<<>>), JStr(<<"x">>), JStr(<<"2024-01-02">>),
    JNum(30), JNum(0), JNum(0 - 50), JNum(15), JBool(TRUE), JBool(FALSE), JNull,
    JArr(<<JNum(130), JNum(240)>>), JArr(<<>>), JArr(<<JNum(10), JStr(<<"x">>)>>),
    JObj(<<[k |-> Ka, v |-> JStr(<<"n">>)], [k |-> Kb, v |-> JNum(420)]>>),
    JObj(<<[k |-> Ka, v |-> JNull], [k |-> Kb, v |-> JNum(420)]>>)>>

PlainJSON == JSONBody(<<TokMember(Ka, JStr(<<"3">>))>>)

FormBody(method, bytes) ==
  [isNil |-> FALSE, Method |-> method,
   ContentType |-> <<"application/x-www-form-urlencoded">>,
   ContentLength |-> Len(bytes), bytes |-> bytes]

\* no body at all: Body is nil, or http.NoBody
AbsentBodies ==
  {[isNil |-> n, Method |-> "GET", ContentType |-> <<>>, ContentLength |-> 0, bytes |-> <<>>] :
     n \in BOOLEAN}

\* the bodies: {"a": v} for every JSON value v, keys that hold a comma or
\* the word omitempty, truncated JSON, an undeclared length, Content-Type
\* spellings, form encodings
BodyChoices ==
  [n \in 1..Len(JVals) |-> JSONBody(<<TokMember(Ka, JVals[n])>>)]
    \o <<JSONBody(<<TokMember(Opt(Ka), JStr(<<"3">>))>>),
         JSONBody(<<TokMember(omitempty, JStr(<<"3">>))>>),
         [PlainJSON EXCEPT !.bytes = <<TokOpen, TokMember(Ka, JStr(<<"3">>))>>,
                           !.ContentLength = 2],
         [PlainJSON EXCEPT !.ContentLength = 0 - 1],
         [PlainJSON EXCEPT !.ContentType =
            <<"application/json", ";", " ", "charset", "=", "utf-8">>],
         [PlainJSON EXCEPT !.ContentType = <<"APPLICATION/JSON">>],
         [PlainJSON EXCEPT !.ContentType = <<"text/plain">>],
         FormBody("POST", <<TokPair(Ka, <<"3">>)>>),
         FormBody("POST", <<TokPair(Ka, <<"3">>), TokPair(Ka, <<"5">>)>>),
         FormBody("GET", <<TokPair(Ka, <<"3">>)>>),
         FormBody("POST", <<TokPair(Ka, <<"3">>), TokBad>>),
         JSONBody(<<TokMember(Opt(Ka), JBool(FALSE))>>),
         JSONBody(<<TokMember(omitempty, JStr(<<>>))>>)>>

Request(pv, q, ck, B) ==
  [Method |-> B.Method, ContentType |-> B.ContentType, ContentLength |-> B.ContentLength,
   Body |-> IF B.isNil THEN 0 ELSE 1, PathValues |-> pv, Query |-> q, Cookies |-> ck]

\* every mix of the non-body sources, with and without a body
MixedRequests ==
  {[pv |-> pv, q |-> q, ck |-> ck, B |-> B] :
     pv \in PathChoices, q \in QueryChoices, ck \in CookieChoices,
     B \in {PlainJSON} \cup AbsentBodies}

\* every body, with all the non-body sources present
BodyRequest(n) ==
  [pv |-> Ka :> <<"1">>, q |-> Ka :> <<(<<"2">>)>>, ck |-> Ka :> <<"4">>, B |-> BodyChoices[n]]

\* the number of concurrent getFieldInfo calls
NCallers == 3

Callers == 1..NCallers

\* the struct types the callers look up
CacheTypes ==
  {TStruct(<<Field("F1", Tag2(query, Ka, body, Opt(Ka)), TString),
             Field("F2", NoTags, TInt),
             Field("F3", Tag1(cookie, Opt(Kb)), TInt)>>, FALSE, FALSE),
   TStruct(<<Field("F1", Tag1(jjson, Ka), TInt),
             Field("F2", Tag1(body, omitempty), TString)>>, FALSE, TRUE)}

\* the calls of the workers that bind independent requests: the request,
\* the destination and what the destination's Validate returns
ParInputs ==
  <<[c |-> BodyRequest(1), vfail |-> FALSE,
     t |-> [kind |-> "ptr", pre |-> "zero",
            typ |-> TStruct(<<Field("F1", Tag1(body, Ka), TString),
                              Field("F2", Tag1(query, Ka), TInt),
                              Field("F3", Tag1(cookie, Ka), TInt)>>, FALSE, TRUE)]],
    [c |-> BodyRequest(1), vfail |-> TRUE,
     t |-> [kind |-> "ptr", pre |-> "zero",
            typ |-> TStruct(<<Field("F1", Tag1(body, Ka), TString),
                              Field("F2", Tag1(query, Ka), TInt),
                              Field("F3", Tag1(cookie, Ka), TInt)>>, FALSE, TRUE)]],
    [c |-> BodyRequest(3), vfail |-> FALSE,
     t |-> [kind |-> "ptr", pre |-> "sentinel",
            typ |-> TStruct(<<Field("F1", Tag1(path, Ka), TString),
                              Field("F2", Tag1(jjson, Ka), TInt)>>, FALSE, FALSE)]],
    [c |-> BodyRequest(12), vfail |-> FALSE,
     t |-> [kind |-> "ptr", pre |-> "sentinel",
            typ |-> TStruct(<<Field("F1", Tag1(body, Ka), TSlice(TInt))>>, FALSE, FALSE)]],
    [c |-> [pv |-> NoValues, q |-> NoValues, ck |-> NoValues,
            B |-> FormBody("POST", <<TokPair(Ka, <<"7">>)>>)], vfail |-> FALSE,
     t |-> [kind |-> "ptr", pre |-> "zero",
            typ |-> TStruct(<<Field("F1", Tag1(body, Ka), TInt)>>, FALSE, FALSE)]],
    [c |-> [pv |-> NoValues, q |-> Ka :> <<(<<"2">>)>>, ck |-> NoValues,
            B |-> [isNil |-> TRUE, Method |-> "GET", ContentType |-> <<>>,
                   ContentLength |-> 0, bytes |-> <<>>]], vfail |-> FALSE,
     t |-> [kind |-> "value", pre |-> "zero",
            typ |-> TStruct(<<Field("F1", Tag1(query, Ka), TInt)>>, FALSE, FALSE)]]>>

\* the destination types and the raw values of the direct setField calls
CoerceTypes ==
  {TString, TInt, TUint, TBool, TFloat, TComplex, TSlice(TInt), TSlice(TString),
   TArray(TInt, 2), TPtr(TUint), TPtr(TBool), Nested, CustomTime}

RawValues ==
  <<RInt(0 - 5), RInt(7), RInt(0), RNum(0 - 50), RNum(0 - 5), RNum(30), RNum(35),
    RStr(<<"-", "5">>), RStr(<<"-", "0", ".", "5">>), RStr(<<"7">>), RStr(<<"x">>),
    RStr(<<>>), RBool(TRUE), RBool(FALSE), RNil,
    RList(<<RNum(10), RNum(20)>>), RStrs(<<(<<"3">>), (<<"5">>)>>),
    RMap(Ka :> RStr(<<"n">>))>>

(***************************************************************************)
(* State                                                                   *)
(***************************************************************************)
VARIABLES
  r,         \* the request; r.Body is 0 (nil) or the id of a stream
  streams,   \* streams[id]: what the reader id still holds
  orig,      \* the body content the request arrived with
  calls,     \* the number of Bind calls made so far
  last,      \* the last Bind call: its target i, vfail, and its outcome out
  seen,      \* the body maps of the calls that reached the body handling
  consumed,  \* what a consumer that read r.Body after the binds got
  g,         \* g[p]: the Bind call of goroutine p, step by step
  fieldCache,       \* the package's cache: struct type -> field information
  fieldCacheMutex,  \* its sync.RWMutex: the readers inside and the writer (0: none)
  look,      \* look[c]: the getFieldInfo call of caller c, step by step
  work,      \* work[p]: the Bind call of worker p on its own request
  co         \* a direct call of setField: its arguments and its outcome

\* what belongs to the cache
cacheVars == <<fieldCache, fieldCacheMutex, look>>

\* what belongs to the Bind calls on one request
bindVars == <<r, streams, orig, calls, last, seen, consumed, g>>

vars == <<r, streams, orig, calls, last, seen, consumed, g,
          fieldCache, fieldCacheMutex, look, work, co>>

\* the goroutines that bind the same request at the same time
Procs == {1, 2}

\* pc: where the call is; ref: the reader it loaded from r.Body (0: none);
\* snap, n: the content a Read call in progress saw and the count it took;
\* buf: bodyBytes so far; b: its body map; val: its destination
Goroutine(pc) ==
  [pc |-> pc, ref |-> 0, snap |-> <<>>, n |-> 0, buf |-> <<>>, b |-> EmptyMap, val |-> <<(<<>>)>>]

NoCall ==
  [i |-> [kind |-> "none", typ |-> TInt, pre |-> "zero"], vfail |-> FALSE, pre |-> 0,
   out |-> [err |-> NoErr, val |-> 0, b |-> EmptyMap, bodyStage |-> FALSE, validated |-> 0]]

\* the cache before any type was looked up, its mutex free
NoCache == [t \in {} |-> 0]

Unlocked == [readers |-> 0, writer |-> 0]

NoInfo == [name \in {} |-> 0]

\* pc: where the call is; typ: its argument; info, found: its locals;
\* how: how it got what it returns ("read", "reused" or "built")
Lookup(pc, typ) ==
  [pc |-> pc, typ |-> typ, info |-> NoInfo, found |-> FALSE, how |-> "none"]

\* pc: where the call is; n: its input; r: its request; b: its body map;
\* out: what it returned
Worker(pc, n, reader) ==
  [pc |-> pc, n |-> n,
   r |-> [Request(ParInputs[n].c.pv, ParInputs[n].c.q, ParInputs[n].c.ck, ParInputs[n].c.B)
            EXCEPT !.Body = reader],
   b |-> EmptyMap,
   out |-> [err |-> NoErr, val |-> PreValue(ParInputs[n].t), validated |-> 0]]

NoCoercion ==
  [typ |-> TInt, cur |-> 0, value |-> RNil, done |-> FALSE, out |-> [err |-> NoErr, val |-> 0]]

\* nobody looks a type up
CacheIdle ==
  /\ fieldCache = NoCache
  /\ fieldCacheMutex = Unlocked
  /\ look = [c \in Callers |-> Lookup("idle", TInt)]

\* the requests and calls of Spec, SpecSeq and SpecConc are not in use
BindIdle ==
  /\ r = Request(NoValues, NoValues, NoValues, PlainJSON)
  /\ orig = <<>>
  /\ calls = 0
  /\ last = NoCall
  /\ seen = <<>>
  /\ consumed = [done |-> FALSE, bytes |-> <<>>]
  /\ g = [p \in Procs |-> Goroutine("idle")]

InitWith(c) ==
  /\ r = Request(c.pv, c.q, c.ck, c.B)
  /\ streams = IF c.B.isNil THEN <<>> ELSE <<c.B.bytes>>
  /\ orig = c.B.bytes
  /\ calls = 0
  /\ last = NoCall
  /\ seen = <<>>
  /\ consumed = [done |-> FALSE, bytes |-> <<>>]
  /\ g = [p \in Procs |-> Goroutine("idle")]
  /\ CacheIdle
  /\ work = [p \in Procs |-> Worker("idle", 1, 0)]
  /\ co = NoCoercion

Init ==
  \/ \E c \in MixedRequests : InitWith(c)
  \/ \E n \in 1..Len(BodyChoices) : InitWith(BodyRequest(n))

\* a handler calls Bind(r, i) with i drawn from T
BindCall(T) ==
  /\ ~consumed.done
  /\ \E t \in T :
       \E vfail \in (IF t.typ.k = "struct" /\ t.typ.validator THEN BOOLEAN ELSE {FALSE}) :
         \E out \in {Bind(r, streams, [kind |-> t.kind, typ |-> t.typ, val |-> PreValue(t)],
                            vfail)} :
           /\ r' = out.r
           /\ streams' = out.streams
           /\ calls' = calls + 1
           /\ last' = [i |-> t, vfail |-> vfail, pre |-> PreValue(t),
                       out |-> [err |-> out.err, val |-> out.val, b |-> out.b,
                                bodyStage |-> out.bodyStage, validated |-> out.validated]]
           /\ seen' = IF out.bodyStage THEN Append(seen, out.b) ELSE seen
           /\ UNCHANGED <<orig, consumed, g>>
           /\ UNCHANGED <<cacheVars, work, co>>

\* one Bind call on a fresh request, with any destination
DoBind == calls = 0 /\ BindCall(Targets)

\* the destinations of the handlers that bind the same request repeatedly
SeqTargets ==
  {[kind |-> "ptr", typ |-> TStruct(<<Field("F1", Tag1(body, Ka), ty)>>, FALSE, v),
    pre |-> "zero"] : ty \in {TString, TInt}, v \in BOOLEAN}
    \cup {[kind |-> k, typ |-> TInt, pre |-> "zero"] : k \in {"ptr", "value"}}

\* one more Bind call on a request that may have been bound before
Rebind == calls < MaxBinds /\ BindCall(SeqTargets)

\* another consumer (a later middleware, the handler) reads r.Body to its end
Consume ==
  /\ ~consumed.done
  /\ consumed' = [done |-> TRUE, bytes |-> IF r.Body = 0 THEN <<>> ELSE ReadAll(streams, r.Body)]
  /\ streams' = IF r.Body = 0 THEN streams ELSE [streams EXCEPT ![r.Body] = <<>>]
  /\ UNCHANGED <<r, orig, calls, last, seen, g>>
  /\ UNCHANGED <<cacheVars, work, co>>

Next == DoBind \/ Consume

Spec == Init /\ [][Next]_vars

NextSeq == Rebind \/ Consume

\* sequential Bind calls on one request
SpecSeq == Init /\ [][NextSeq]_vars

(***************************************************************************)
(* Two Bind calls on the same request at the same time.  Nothing orders    *)
(* the two calls: each step below is one access to the request or to a     *)
(* reader, and a Read is two accesses (take what is there, then move the   *)
(* reader's offset past it), as in bytes.Buffer.                           *)
(***************************************************************************)
\* the destination of the concurrent calls: struct{F1 string `body:"a"`}
ConcType == TStruct(<<Field("F1", Tag1(body, Ka), TString)>>, FALSE, FALSE)

ConcBodies ==
  <<JSONBody(<<TokMember(Ka, JStr(<<"3">>)), TokMember(Kb, JStr(<<"x">>))>>),
    FormBody("POST", <<TokPair(Ka, <<"3">>), TokPair(Ka, <<"5">>)>>),
    [PlainJSON EXCEPT !.ContentLength = 0 - 1]>>

InitConc ==
  \E n \in 1..Len(ConcBodies) :
    /\ r = Request(NoValues, NoValues, NoValues, ConcBodies[n])
    /\ streams = <<ConcBodies[n].bytes>>
    /\ orig = ConcBodies[n].bytes
    /\ calls = 0
    /\ last = NoCall
    /\ seen = <<>>
    /\ consumed = [done |-> FALSE, bytes |-> <<>>]
    /\ g = [p \in Procs |-> Goroutine("start")]
    /\ CacheIdle
    /\ work = [p \in Procs |-> Worker("idle", 1, 0)]
    /\ co = NoCoercion

\* `if r.Body != nil && r.ContentLength > 0`: the call loads r.Body
ConcLoad(p) ==
  /\ g[p].pc = "start"
  /\ g' = [g EXCEPT ![p] = IF r.Body # 0 /\ r.ContentLength > 0
                             THEN [@ EXCEPT !.pc = "read", !.ref = r.Body]
                             ELSE [@ EXCEPT !.pc = "fields"]]
  /\ UNCHANGED <<r, streams, orig, calls, last, seen, consumed>>
  /\ UNCHANGED <<cacheVars, work, co>>

\* io.ReadAll, a Read call: take n pieces of what the reader holds
ConcRead(p) ==
  /\ g[p].pc = "read"
  /\ streams[g[p].ref] # <<>>
  /\ \E n \in 1..Len(streams[g[p].ref]) :
       g' = [g EXCEPT ![p] = [@ EXCEPT !.pc = "advance", !.snap = streams[g[p].ref], !.n = n,
                                       !.buf = @ \o SubSeq(streams[g[p].ref], 1, n)]]
  /\ UNCHANGED <<r, streams, orig, calls, last, seen, consumed>>
  /\ UNCHANGED <<cacheVars, work, co>>

\* the Read call moves the reader past what it took
ConcAdvance(p) ==
  /\ g[p].pc = "advance"
  /\ streams' = [streams EXCEPT ![g[p].ref] = SubSeq(g[p].snap, g[p].n + 1, Len(g[p].snap))]
  /\ g' = [g EXCEPT ![p] = [@ EXCEPT !.pc = "read"]]
  /\ UNCHANGED <<r, orig, calls, last, seen, consumed>>
  /\ UNCHANGED <<cacheVars, work, co>>

\* io.ReadAll, the Read call that finds the reader empty: ReadAll returns
ConcEOF(p) ==
  /\ g[p].pc = "read"
  /\ streams[g[p].ref] = <<>>
  /\ g' = [g EXCEPT ![p] = [@ EXCEPT !.pc = "restore"]]
  /\ UNCHANGED <<r, streams, orig, calls, last, seen, consumed>>
  /\ UNCHANGED <<cacheVars, work, co>>

\* r.Body = io.NopCloser(bytes.NewBuffer(bodyBytes))
ConcRestore(p) ==
  /\ g[p].pc = "restore"
  /\ streams' = Append(streams, NewBuffer(g[p].buf))
  /\ r' = [r EXCEPT !.Body = Len(streams) + 1]
  /\ g' = [g EXCEPT ![p] = [@ EXCEPT !.pc = "parse"]]
  /\ UNCHANGED <<orig, calls, last, seen, consumed>>
  /\ UNCHANGED <<cacheVars, work, co>>

\* the copy of the request gets its own reader and is parsed
ConcParse(p) ==
  /\ g[p].pc = "parse"
  /\ LET parsed == parseBody(r, NewBuffer(g[p].buf))
     IN g' = [g EXCEPT ![p] = [@ EXCEPT !.pc = "fields",
                                        !.b = IF IsErr(parsed.err) THEN EmptyMap ELSE parsed.m]]
  /\ UNCHANGED <<r, streams, orig, calls, last, seen, consumed>>
  /\ UNCHANGED <<cacheVars, work, co>>

\* the field loop of the call, on its own destination
ConcFields(p) ==
  /\ g[p].pc = "fields"
  /\ g' = [g EXCEPT ![p] = [@ EXCEPT !.pc = "done",
                                     !.val = BindLoop(ConcType, Zero(ConcType), r, g[p].b, 1).val]]
  /\ calls' = calls + 1
  /\ UNCHANGED <<r, streams, orig, last, seen, consumed>>
  /\ UNCHANGED <<cacheVars, work, co>>

NextConc ==
  \E p \in Procs :
    \/ ConcLoad(p)
    \/ ConcRead(p)
    \/ ConcAdvance(p)
    \/ ConcEOF(p)
    \/ ConcRestore(p)
    \/ ConcParse(p)
    \/ ConcFields(p)

SpecConc == InitConc /\ [][NextConc]_vars

(***************************************************************************)
(* Concurrent getFieldInfo calls.  Each step is one statement of           *)
(* getFieldInfo; RLock waits while a writer is inside, Lock waits while    *)
(* anybody is inside.                                                      *)
(***************************************************************************)
InitCache ==
  /\ fieldCache = NoCache
  /\ fieldCacheMutex = Unlocked
  /\ look \in [Callers -> {Lookup("RLock", T) : T \in CacheTypes}]
  /\ BindIdle
  /\ streams = <<>>
  /\ work = [p \in Procs |-> Worker("idle", 1, 0)]
  /\ co = NoCoercion

\* fieldCacheMutex.RLock()
CacheRLock(c) ==
  /\ look[c].pc = "RLock"
  /\ fieldCacheMutex.writer = 0
  /\ fieldCacheMutex' = [fieldCacheMutex EXCEPT !.readers = @ + 1]
  /\ look' = [look EXCEPT ![c].pc = "read"]
  /\ UNCHANGED <<fieldCache, bindVars, work, co>>

\* info, found := fieldCache[typ]
CacheRead(c) ==
  /\ look[c].pc = "read"
  /\ look' = [look EXCEPT ![c] =
                [@ EXCEPT !.pc = "RUnlock",
                          !.found = look[c].typ \in DOMAIN fieldCache,
                          !.info = IF look[c].typ \in DOMAIN fieldCache
                                     THEN fieldCache[look[c].typ] ELSE NoInfo]]
  /\ UNCHANGED <<fieldCache, fieldCacheMutex, bindVars, work, co>>

\* fieldCacheMutex.RUnlock(); if found { return info }
CacheRUnlock(c) ==
  /\ look[c].pc = "RUnlock"
  /\ fieldCacheMutex' = [fieldCacheMutex EXCEPT !.readers = @ - 1]
  /\ look' = [look EXCEPT ![c] = IF look[c].found
                                   THEN [@ EXCEPT !.pc = "done", !.how = "read"]
                                   ELSE [@ EXCEPT !.pc = "Lock"]]
  /\ UNCHANGED <<fieldCache, bindVars, work, co>>

\* a Lock that does not wait for the readers to leave
CacheLockEager(c) ==
  /\ look[c].pc = "Lock"
  /\ fieldCacheMutex.writer = 0
  /\ fieldCacheMutex' = [fieldCacheMutex EXCEPT !.writer = c]
  /\ look' = [look EXCEPT ![c].pc = "recheck"]
  /\ UNCHANGED <<fieldCache, bindVars, work, co>>

\* fieldCacheMutex.Lock()
CacheLock(c) ==
  /\ look[c].pc = "Lock"
  /\ fieldCacheMutex.writer = 0 /\ fieldCacheMutex.readers = 0
  /\ fieldCacheMutex' = [fieldCacheMutex EXCEPT !.writer = c]
  /\ look' = [look EXCEPT ![c].pc = "recheck"]
  /\ UNCHANGED <<fieldCache, bindVars, work, co>>

\* a second look that returns the entry it finds without releasing the lock
CacheRecheckLeak(c) ==
  /\ look[c].pc = "recheck"
  /\ look' = [look EXCEPT ![c] =
                IF look[c].typ \in DOMAIN fieldCache
                  THEN [@ EXCEPT !.pc = "done", !.found = TRUE, !.how = "reused",
                                 !.info = fieldCache[look[c].typ]]
                  ELSE [@ EXCEPT !.pc = "build"]]
  /\ UNCHANGED <<fieldCache, fieldCacheMutex, bindVars, work, co>>

\* a second look that never finds the entry
CacheRecheckBlind(c) ==
  /\ look[c].pc = "recheck"
  /\ look' = [look EXCEPT ![c].pc = "build"]
  /\ UNCHANGED <<fieldCache, fieldCacheMutex, bindVars, work, co>>

\* if info, found = fieldCache[typ]; found { return info }
CacheRecheck(c) ==
  /\ look[c].pc = "recheck"
  /\ look' = [look EXCEPT ![c] =
                IF look[c].typ \in DOMAIN fieldCache
                  THEN [@ EXCEPT !.pc = "Unlock", !.found = TRUE, !.how = "reused",
                                 !.info = fieldCache[look[c].typ]]
                  ELSE [@ EXCEPT !.pc = "build"]]
  /\ UNCHANGED <<fieldCache, fieldCacheMutex, bindVars, work, co>>

\* info = make(...) and the loop over the fields of typ
CacheBuild(c) ==
  /\ look[c].pc = "build"
  /\ look' = [look EXCEPT ![c] = [@ EXCEPT !.pc = "store", !.info = buildFieldInfo(look[c].typ)]]
  /\ UNCHANGED <<fieldCache, fieldCacheMutex, bindVars, work, co>>

\* fieldCache[typ] = info; return info
CacheStore(c) ==
  /\ look[c].pc = "store"
  /\ fieldCache' = cacheStore(fieldCache, look[c].typ, look[c].info)
  /\ look' = [look EXCEPT ![c] = [@ EXCEPT !.pc = "Unlock", !.how = "built"]]
  /\ UNCHANGED <<fieldCacheMutex, bindVars, work, co>>

\* the deferred fieldCacheMutex.Unlock()
CacheUnlock(c) ==
  /\ look[c].pc = "Unlock"
  /\ fieldCacheMutex' = [fieldCacheMutex EXCEPT !.writer = 0]
  /\ look' = [look EXCEPT ![c].pc = "done"]
  /\ UNCHANGED <<fieldCache, bindVars, work, co>>

NextCache ==
  \E c \in Callers :
    \/ CacheRLock(c)
    \/ CacheRead(c)
    \/ CacheRUnlock(c)
    \/ CacheLock(c)
    \/ CacheRecheck(c)
    \/ CacheBuild(c)
    \/ CacheStore(c)
    \/ CacheUnlock(c)

SpecCache == InitCache /\ [][NextCache]_vars

\* the calls start on a cache that is empty or already holds one of the types
InitCacheMixed ==
  /\ \E seenTypes \in SUBSET CacheTypes :
       /\ Cardinality(seenTypes) <= 1
       /\ fieldCache = [t \in seenTypes |-> buildFieldInfo(t)]
  /\ fieldCacheMutex = Unlocked
  /\ look \in [Callers -> {Lookup("RLock", T) : T \in CacheTypes}]
  /\ BindIdle
  /\ streams = <<>>
  /\ work = [p \in Procs |-> Worker("idle", 1, 0)]
  /\ co = NoCoercion

\* the next statement of caller c
CacheStep(c) ==
  \/ CacheRLock(c)
  \/ CacheRead(c)
  \/ CacheRUnlock(c)
  \/ CacheLock(c)
  \/ CacheRecheck(c)
  \/ CacheBuild(c)
  \/ CacheStore(c)
  \/ CacheUnlock(c)

NextCacheFair == \E c \in Callers : CacheStep(c)

\* the Go scheduler runs every goroutine that can take a step, and the
\* mutex wakes a waiting caller once the lock it waits for is free
SpecCacheFair ==
  InitCacheMixed /\ [][NextCacheFair]_vars /\ \A c \in Callers : WF_vars(CacheStep(c))

(***************************************************************************)
(* Concurrent Bind calls on independent requests.  The readers of all the  *)
(* requests live in one heap (streams); each worker has its own request    *)
(* and its own destination.                                                *)
(***************************************************************************)
InitPar ==
  \E f \in [Procs -> 1..Len(ParInputs)] :
    /\ streams = [p \in 1..Cardinality(Procs) |-> ParInputs[f[p]].c.B.bytes]
    /\ work = [p \in Procs |->
                 Worker("start", f[p], IF ParInputs[f[p]].c.B.isNil THEN 0 ELSE p)]
    /\ BindIdle
    /\ CacheIdle
    /\ co = NoCoercion

\* the destination of worker p as Bind gets it
WorkTarget(p) ==
  [kind |-> ParInputs[work[p].n].t.kind, typ |-> ParInputs[work[p].n].t.typ,
   val |-> PreValue(ParInputs[work[p].n].t)]

\* reflect.TypeOf(i).Elem() and reflect.ValueOf(i).Elem()
ParStart(p) ==
  /\ work[p].pc = "start"
  /\ work' = [work EXCEPT ![p] =
                IF WorkTarget(p).kind \in {"nil", "value"}
                  THEN [@ EXCEPT !.pc = "done",
                                 !.out = [err |-> Bind(work[p].r, streams, WorkTarget(p), FALSE).err,
                                          val |-> WorkTarget(p).val, validated |-> 0]]
                  ELSE [@ EXCEPT !.pc = "body"]]
  /\ UNCHANGED <<streams, r, orig, calls, last, seen, consumed, g, cacheVars, co>>

\* a body handling that reads the reader created last, whoever made it
ParBodyLatest(p) ==
  /\ work[p].pc = "body"
  /\ \E bs \in {BodyStage([work[p].r EXCEPT !.Body = Len(streams)], streams)} :
       /\ streams' = bs.streams
       /\ work' = [work EXCEPT ![p] = [@ EXCEPT !.pc = "fields", !.r = bs.r, !.b = bs.b]]
  /\ UNCHANGED <<r, orig, calls, last, seen, consumed, g, cacheVars, co>>

\* the body handling of the call, on its own request
ParBody(p) ==
  /\ work[p].pc = "body"
  /\ \E bs \in {BodyStage(work[p].r, streams)} :
       /\ streams' = bs.streams
       /\ work' = [work EXCEPT ![p] = [@ EXCEPT !.pc = "fields", !.r = bs.r, !.b = bs.b]]
  /\ UNCHANGED <<r, orig, calls, last, seen, consumed, g, cacheVars, co>>

\* the field loop and the validation of the call, on its own destination
ParFields(p) ==
  /\ work[p].pc = "fields"
  /\ \E out \in {BindTarget(WorkTarget(p), ParInputs[work[p].n].vfail,
                              [r |-> work[p].r, streams |-> streams, b |-> work[p].b])} :
       work' = [work EXCEPT ![p] =
                 [@ EXCEPT !.pc = "done",
                           !.out = [err |-> out.err, val |-> out.val,
                                    validated |-> out.validated]]]
  /\ UNCHANGED <<streams, r, orig, calls, last, seen, consumed, g, cacheVars, co>>

NextPar ==
  \E p \in Procs :
    \/ ParStart(p)
    \/ ParBody(p)
    \/ ParFields(p)

SpecPar == InitPar /\ [][NextPar]_vars

(***************************************************************************)
(* Direct calls of setField                                                *)
(***************************************************************************)
InitCoerce ==
  /\ \E typ \in CoerceTypes : \E pre \in {"zero", "sentinel"} : \E n \in 1..Len(RawValues) :
       co = [typ |-> typ, cur |-> PreValue([typ |-> typ, pre |-> pre]),
             value |-> RawValues[n], done |-> FALSE,
             out |-> [err |-> NoErr, val |-> PreValue([typ |-> typ, pre |-> pre])]]
  /\ BindIdle
  /\ streams = <<>>
  /\ CacheIdle
  /\ work = [p \in Procs |-> Worker("idle", 1, 0)]

\* setField(field, value)
Coerce ==
  /\ ~co.done
  /\ \E out \in {setField(co.cur, co.typ, co.value)} :
       co' = [co EXCEPT !.done = TRUE, !.out = out]
  /\ UNCHANGED <<bindVars, cacheVars, work>>

NextCoerce == Coerce

SpecCoerce == InitCoerce /\ [][NextCoerce]_vars

(***************************************************************************)
(* Properties of one Bind call (Spec)                                      *)
(***************************************************************************)
\* the last call had a pointer to a struct as its destination
NormalCall == calls > 0 /\ last.i.kind = "ptr" /\ last.i.typ.k = "struct"

\* the sources a field declares: its non-empty recognized markers
Declared(field) == {src \in SrcSet : TagGet(field, src) # <<>>}

\* the declared source of highest precedence
Winner(field) ==
  CHOOSE src \in Declared(field) : \A o \in Declared(field) : Prec(src) <= Prec(o)

\* the request holds a value under key in source src
Holds(src, key) ==
  CASE src = path -> PathValue(r, key) # <<>>
    [] src = query -> QueryGet(r, key) # <<>>
    [] src \in {body, jjson} -> MapHas(last.out.b, key)
    [] src = cookie -> key \in DOMAIN r.Cookies

\* that value
ValueAt(src, key) ==
  CASE src = path -> RStr(PathValue(r, key))
    [] src = query -> RStr(QueryGet(r, key))
    [] src \in {body, jjson} -> MapGet(last.out.b, key)
    [] src = cookie -> RStr(Cookie(r, key).Value)

\* what processing field x alone does to it, from its value before the call
FieldOutcome(x) ==
  LET field == last.i.typ.fs[x]
      res == ResolveSource(r, last.out.b, field)
  IN IF SkipField(res, field) THEN [err |-> NoErr, val |-> last.pre[x]]
     ELSE BindField(last.pre[x], field, res.v)

\* the first field whose coercion fails, 0 when none does
FirstFailing ==
  LET failing == {x \in 1..NumField(last.i.typ) : IsErr(FieldOutcome(x).err)}
  IN IF failing = {} THEN 0
     ELSE CHOOSE x \in failing : \A y \in failing : x <= y

\* C1: a field that declares two or more recognized markers takes its value
\* from the declared source of highest precedence only: it holds the
\* coercion of that source's value, and it keeps its value when that source
\* has none (or an omitted empty one), whatever the other sources hold.
C1_Precedence ==
  NormalCall =>
    \A x \in 1..NumField(last.i.typ) :
      LET field == last.i.typ.fs[x]
          w == Winner(field)
          key == TagGet(field, w)
      IN (Cardinality(Declared(field)) >= 2 /\ IndexComma(key) = 0
            /\ (FirstFailing = 0 \/ x <= FirstFailing)) =>
           IF Holds(w, key) /\ ~(omitEmptyOf(field) /\ isEmptyValue(ValueAt(w, key)))
             THEN last.out.val[x] = BindField(last.pre[x], field, ValueAt(w, key)).val
             ELSE last.out.val[x] = last.pre[x]

\* a string field tagged path and query, both present: it holds the path value
C1_Witness ==
  /\ NormalCall
  /\ last.i.typ.fs[1].Tag = Tag2(path, Ka, query, Ka)
  /\ last.i.typ.fs[1].Type = TString
  /\ Holds(path, Ka) /\ Holds(query, Ka)
  /\ last.pre[1] = <<>>
  /\ last.out.val[1] = PathValue(r, Ka)
  /\ last.out.val[1] # QueryGet(r, Ka)

\* C2: a field whose only marker is `K,omitempty`, for any source kind, is
\* bound to the non-empty value its source holds under K.
C2_KeyBeforeComma ==
  NormalCall =>
    \A x \in 1..NumField(last.i.typ) :
      LET field == last.i.typ.fs[x]
          w == Winner(field)
      IN (Declared(field) # {} /\ Declared(field) = {w} /\ TagGet(field, w) = Opt(Ka)
            /\ Holds(w, Ka) /\ ~isEmptyValue(ValueAt(w, Ka))
            /\ ~IsErr(BindField(last.pre[x], field, ValueAt(w, Ka)).err)) =>
           last.out.val[x] = BindField(last.pre[x], field, ValueAt(w, Ka)).val

\* C3: a field tagged `K,omitempty` that holds a sentinel keeps it when the
\* source lacks K and when the source holds an empty value under K, and a
\* non-empty value under K replaces the sentinel.
C3_OmitEmptySentinel ==
  (NormalCall /\ last.i.pre = "sentinel") =>
    \A x \in 1..NumField(last.i.typ) :
      LET field == last.i.typ.fs[x]
          w == Winner(field)
      IN (Declared(field) # {} /\ Declared(field) = {w} /\ TagGet(field, w) = Opt(Ka)) =>
           IF ~Holds(w, Ka) \/ isEmptyValue(ValueAt(w, Ka))
             THEN last.out.val[x] = last.pre[x]
             ELSE ~IsErr(BindField(last.pre[x], field, ValueAt(w, Ka)).err) =>
                    last.out.val[x] = BindField(last.pre[x], field, ValueAt(w, Ka)).val

\* C4: Bind returns an error when the value of a field tagged `K,required`
\* is missing from the request.
C4_Required ==
  NormalCall =>
    \A x \in 1..NumField(last.i.typ) :
      LET field == last.i.typ.fs[x]
          w == Winner(field)
      IN (Declared(field) # {} /\ TagGet(field, w) = Req(Ka) /\ ~Holds(w, Ka)) =>
           IsErr(last.out.err)

\* C5: Bind never panics, and for a target that is not a pointer to a
\* struct it returns an error.
C5_NeverPanics ==
  calls > 0 =>
    /\ ~IsPanic(last.out.err)
    /\ ~(last.i.kind = "ptr" /\ last.i.typ.k = "struct") => IsErr(last.out.err)

\* C6: when the coercion of field k fails, Bind returns the error of field
\* k, which names k, without validating; the fields after k keep their
\* values and the fields before k hold what binding them gave.
C6_AbortAtFirstError ==
  (NormalCall /\ FirstFailing # 0) =>
    LET k == FirstFailing
    IN /\ last.out.err = FieldOutcome(k).err
       /\ Mentions(last.out.err, last.i.typ.fs[k].Name)
       /\ last.out.validated = 0
       /\ \A x \in (k + 1)..NumField(last.i.typ) : last.out.val[x] = last.pre[x]
       /\ \A x \in 1..(k - 1) : last.out.val[x] = FieldOutcome(x).val

\* field 1 was bound, field 2 failed, field 3 had a value to take and kept its own
C6_Witness ==
  /\ NormalCall
  /\ NumField(last.i.typ) = 3
  /\ FirstFailing = 2
  /\ last.out.val[1] # last.pre[1]
  /\ ~SkipField(ResolveSource(r, last.out.b, last.i.typ.fs[3]), last.i.typ.fs[3])
  /\ ~IsErr(FieldOutcome(3).err) /\ FieldOutcome(3).val # last.pre[3]
  /\ last.out.val[3] = last.pre[3]
  /\ Mentions(last.out.err, "F2")

\* C7: when every field bound without error and Validate returns an error,
\* Bind returns an error that wraps it ("validation failed") and the
\* destination holds every bound value.
C7_ValidationFailure ==
  (NormalCall /\ last.i.typ.validator /\ last.vfail /\ FirstFailing = 0) =>
    /\ Mentions(last.out.err, "validation failed: ")
    /\ \A x \in 1..NumField(last.i.typ) : last.out.val[x] = FieldOutcome(x).val

\* Validate failed on a destination in which a field was bound
C7_Witness ==
  /\ NormalCall /\ last.i.typ.validator /\ last.vfail /\ FirstFailing = 0
  /\ IsErr(last.out.err)
  /\ \E x \in 1..NumField(last.i.typ) : last.out.val[x] # last.pre[x]

(***************************************************************************)
(* Properties of sequential Bind calls on one request (SpecSeq)            *)
(***************************************************************************)
\* C8: all the Bind calls made on a request see the same body map.
C8_SameBodyMap ==
  \A n \in 1..Len(seen) : \A m \in 1..Len(seen) : seen[n] = seen[m]

\* two calls saw a body map that holds a value, and the second bound it
C8_Witness ==
  /\ Len(seen) >= 2
  /\ MapHas(seen[1], Ka) /\ MapHas(seen[Len(seen)], Ka)
  /\ NormalCall /\ ~IsErr(last.out.err)
  /\ last.out.val[1] # last.pre[1]

BothRead == \A p \in Procs : g[p].pc = "done" /\ g[p].ref # 0

\* each call captured the original content and r.Body holds it
FullContent ==
  /\ \A p \in Procs : g[p].buf = orig
  /\ r.Body # 0 /\ streams[r.Body] = orig

\* C10 as stated: under every interleaving of the body reads and the body
\* replacements of two concurrent calls, each call observes the full
\* original content and the request body left afterwards is that content.
C10_EveryInterleaving == BothRead => FullContent

\* C10: when one of two concurrent calls loads r.Body only after the other
\* has replaced it (the calls read different readers), each call observes
\* the full original content and r.Body is left holding it.
C10_NonOverlapping ==
  (BothRead /\ \A p \in Procs : \A q \in Procs : p # q => g[p].ref # g[q].ref) => FullContent

\* the second call read the reader the first one put back, and bound from it
C10_Witness ==
  /\ BothRead
  /\ g[1].ref # g[2].ref
  /\ orig # <<>>
  /\ \A p \in Procs : g[p].buf = orig /\ g[p].val = <<(<<"3">>)>>


(***************************************************************************)
(* Properties of the body handling of one Bind call (Spec)                 *)
(***************************************************************************)
\* the request came with a body that Bind reads
BodyRead == orig # <<>> /\ r.ContentLength > 0

\* the body cannot be decoded: its content type is not a recognized one,
\* or its JSON or form encoding is malformed
BodyUnusable ==
  \/ parseContentType(r.ContentType)
       \notin {<<"application/json">>, <<"application/x-www-form-urlencoded">>}
  \/ IsErr(parseBody(r, orig).err)

\* the fields Bind got to: all of them, or those up to the first failing one
Processed ==
  IF FirstFailing = 0 THEN 1..NumField(last.i.typ) ELSE 1..FirstFailing

\* C11: when the body cannot be decoded or its content type is not
\* recognized, the body map is empty, Bind's error (if any) is not about the
\* body, every body/json-sourced field keeps its value and every
\* path/query/cookie-sourced field holds what binding it gives.
C11_DecodeFailureNotFatal ==
  (NormalCall /\ BodyUnusable) =>
    /\ last.out.b = EmptyMap
    /\ ~Mentions(last.out.err, "failed to decode JSON body: ")
    /\ ~Mentions(last.out.err, "failed to parse form data: ")
    /\ (FirstFailing = 0 /\ ~(last.i.typ.validator /\ last.vfail)) => last.out.err = NoErr
    /\ \A x \in Processed :
         LET field == last.i.typ.fs[x]
         IN Declared(field) # {} =>
              IF Winner(field) \in {body, jjson}
                THEN last.out.val[x] = last.pre[x]
                ELSE last.out.val[x] = FieldOutcome(x).val

\* a malformed body was read, Bind returned no error, a query-sourced field
\* was bound and a body-sourced one kept its value
C11_Witness ==
  /\ NormalCall /\ BodyRead /\ IsErr(parseBody(r, orig).err)
  /\ NumField(last.i.typ) = 3
  /\ last.out.err = NoErr
  /\ last.i.typ.fs[1].Tag = Tag1(query, Ka) /\ last.out.val[1] # last.pre[1]
  /\ last.i.typ.fs[2].Tag = Tag1(body, Ka) /\ last.out.val[2] = last.pre[2]


(***************************************************************************)
(* Properties of concurrent getFieldInfo calls (SpecCache)                 *)
(***************************************************************************)
\* the callers that look up typ
CallersOf(typ) == {c \in Callers : look[c].typ = typ}

\* the callers that have built an entry for typ (built it, or stored it already)
Builders(typ) == {c \in CallersOf(typ) : look[c].pc = "store" \/ look[c].how = "built"}

\* C12: for N concurrent first-time getFieldInfo calls of the same unseen
\* type, under every interleaving the entry of the type is built and stored
\* at most once at any moment and exactly once when all callers have
\* returned, and every caller that has returned holds the stored entry,
\* which is the entry a single sequential build produces.
C12_BuiltOnce ==
  \A typ \in CacheTypes :
    /\ Cardinality(Builders(typ)) <= 1
    /\ typ \in DOMAIN fieldCache => fieldCache[typ] = buildFieldInfo(typ)
    /\ \A c \in CallersOf(typ) :
         look[c].pc = "done" =>
           /\ typ \in DOMAIN fieldCache
           /\ look[c].info = fieldCache[typ]
           /\ look[c].info = buildFieldInfo(typ)
    /\ (CallersOf(typ) # {} /\ \A c \in CallersOf(typ) : look[c].pc = "done") =>
         Cardinality({c \in CallersOf(typ) : look[c].how = "built"}) = 1

\* all the callers look up one type, all have returned, and one of them lost
\* the race for the write lock and reused the winner's entry
C12_Witness ==
  /\ \A c \in Callers : look[c].typ = look[1].typ /\ look[c].pc = "done"
  /\ \E c \in Callers : look[c].how = "built"
  /\ \E c \in Callers : look[c].how = "reused"
  /\ \E c \in Callers : look[c].how = "read"


(***************************************************************************)
(* The field cache and Bind (Spec)                                         *)
(***************************************************************************)
\* C13: the cache entry of a destination type is created on the first Bind
\* of the type: after a Bind call with a destination of struct type T has
\* returned, fieldCache holds an entry for T.
C13_EntryAfterBind ==
  NormalCall => last.i.typ \in DOMAIN fieldCache


(***************************************************************************)
(* Properties of concurrent Bind calls on independent requests (SpecPar)   *)
(***************************************************************************)
\* the call of worker p run alone: its request with its own reader as the
\* only one, its own destination
Alone(p) ==
  Bind(Worker("start", work[p].n, IF ParInputs[work[p].n].c.B.isNil THEN 0 ELSE 1).r,
       <<ParInputs[work[p].n].c.B.bytes>>, WorkTarget(p), ParInputs[work[p].n].vfail)

\* C14: concurrent Bind calls on independent requests and independent
\* destinations do not interfere: under every interleaving the error a call
\* returns and the destination it leaves are those of the call run alone.
C14_NoInterference ==
  \A p \in Procs :
    work[p].pc = "done" =>
      \E alone \in {Alone(p)} :
        /\ work[p].out.err = alone.err
        /\ work[p].out.val = alone.val

\* two calls with different bodies and different destination types have
\* both returned, both read a body and both changed their destination
C14_Witness ==
  /\ \A p \in Procs : work[p].pc = "done" /\ work[p].b # EmptyMap
                        /\ work[p].out.val # PreValue(ParInputs[work[p].n].t)
  /\ ParInputs[work[1].n].c.B # ParInputs[work[2].n].c.B
  /\ ParInputs[work[1].n].t.typ # ParInputs[work[2].n].t.typ


(***************************************************************************)
(* Properties of the coercions reached through one Bind call (Spec)        *)
(***************************************************************************)
\* what Bind resolved for field x of the last call
Resolved(x) == ResolveSource(r, last.out.b, last.i.typ.fs[x])

\* field x of the last call was reached by the field loop and has a value
\* in the request under the key Bind looks up
Supplied(x) ==
  /\ NormalCall
  /\ x \in Processed
  /\ Resolved(x).tagged /\ Resolved(x).exists

ArraysUnsupported == "arrays are not supported, use slices instead"

IntegerArray(value) ==
  /\ value.t = "[]interface {}"
  /\ \A n \in 1..Len(value.v) : value.v[n].t = "float64" /\ value.v[n].v % 10 = 0

\* C17: a JSON array of n integers bound to an integer-sequence field
\* yields a sequence of length n whose i-th element equals the i-th array
\* element, for every i, in place of what the field held before; the bind
\* of the field does not fail.
C17_IntegerArrayToSlice ==
  \A x \in 1..(IF NormalCall THEN NumField(last.i.typ) ELSE 0) :
    (/\ Supplied(x) /\ last.i.typ.fs[x].Type = TSlice(TInt)
     /\ ~SkipField(Resolved(x), last.i.typ.fs[x])
     /\ IntegerArray(Resolved(x).v)) =>
      /\ FirstFailing # x
      /\ ~last.out.val[x].isNil
      /\ Len(last.out.val[x].elems) = Len(Resolved(x).v.v)
      /\ \A n \in 1..Len(Resolved(x).v.v) :
           10 * last.out.val[x].elems[n] = Resolved(x).v.v[n].v

\* the body {"a":[13,24]} was bound to an []int field that held one other
\* element: the field now holds 13, 24
C17_Witness ==
  /\ Supplied(1) /\ last.i.typ.fs[1].Type = TSlice(TInt)
  /\ IntegerArray(Resolved(1).v) /\ Len(Resolved(1).v.v) = 2
  /\ last.pre[1] = Sentinel(TSlice(TInt))
  /\ last.out.val[1].elems = <<13, 24>>
  /\ last.out.err = NoErr

\* field x of the last call was handed the value null
NullBound(x) ==
  /\ Supplied(x)
  /\ ~SkipField(Resolved(x), last.i.typ.fs[x])
  /\ Resolved(x).v.t = "nil"

\* what a null leaves in a field of type typ that held f: f itself, or a
\* pointer to a fresh zero value when f was a nil pointer
AfterNull(typ, f) == IF typ.k = "ptr" /\ IsNilPtr(f) THEN <<Zero(typ.e)>> ELSE f

\* field x of the last call is a struct, or a pointer to one, and was handed
\* a JSON object
NestedBound(x) ==
  /\ Supplied(x)
  /\ ~SkipField(Resolved(x), last.i.typ.fs[x])
  /\ Resolved(x).v.t = "map[string]interface {}"
  /\ \/ last.i.typ.fs[x].Type.k = "struct"
     \/ last.i.typ.fs[x].Type.k = "ptr" /\ last.i.typ.fs[x].Type.e.k = "struct"
  /\ ~ImplementsTextUnmarshaler(last.i.typ.fs[x].Type)

\* the struct type behind field x, its value before and after the call
NestedType(x) ==
  IF last.i.typ.fs[x].Type.k = "ptr" THEN last.i.typ.fs[x].Type.e ELSE last.i.typ.fs[x].Type

NestedPre(x) ==
  IF last.i.typ.fs[x].Type.k # "ptr" THEN last.pre[x]
  ELSE IF IsNilPtr(last.pre[x]) THEN Zero(NestedType(x)) ELSE last.pre[x][1]

NestedPost(x) ==
  IF last.i.typ.fs[x].Type.k # "ptr" THEN last.out.val[x] ELSE last.out.val[x][1]

\* the key BindStruct looks up for a sub-field
NestedKey(field) ==
  IF TagGet(field, body) # <<>> THEN TagGet(field, body) ELSE TagGet(field, jjson)

\* the sub-fields of field x whose key the object holds with value null
NullMembers(x) ==
  {y \in 1..NumField(NestedType(x)) :
     /\ NestedKey(NestedType(x).fs[y]) # <<>>
     /\ MapHas(Resolved(x).v.v, NestedKey(NestedType(x).fs[y]))
     /\ Resolved(x).v.v[NestedKey(NestedType(x).fs[y])].t = "nil"}

FormRead ==
  /\ NormalCall /\ BodyRead
  /\ parseContentType(r.ContentType) = <<"application/x-www-form-urlencoded">>
  /\ ~IsErr(ParseForm(r.Method, orig).err)

\* the body map holds the form's names as the claim says: one string for a
\* name that appears once, the sequence of its values for a repeated name
FormDecoded ==
  \E f \in {ParseForm(r.Method, orig)} :
    \A kk \in DOMAIN f.PostForm :
      /\ MapHas(last.out.b, kk)
      /\ IF Len(f.PostForm[kk]) = 1
           THEN last.out.b[kk].t = "string" /\ last.out.b[kk].v = f.PostForm[kk][1]
           ELSE last.out.b[kk].t = "[]string" /\ last.out.b[kk].v = f.PostForm[kk]

\* C19: in a form-encoded body a name that appears k >= 2 times is decoded
\* to the sequence of its k values and a name that appears once to a single
\* string, and binding the sequence to a string-sequence field succeeds and
\* yields the k values in order.
C19_RepeatedFormField ==
  FormRead =>
    /\ FormDecoded
    /\ \A x \in 1..NumField(last.i.typ) :
         (/\ Supplied(x) /\ last.i.typ.fs[x].Type = TSlice(TString)
          /\ ~SkipField(Resolved(x), last.i.typ.fs[x])
          /\ Resolved(x).v.t = "[]string") =>
           /\ FirstFailing # x
           /\ last.out.val[x].elems = Resolved(x).v.v

\* field x of the last call is a *bool that was nil, takes its value from
\* the body and carries omitempty; the call read a body that parsed
OptionalFlag(x) ==
  /\ NormalCall /\ BodyRead /\ ~BodyUnusable
  /\ x \in Processed
  /\ last.i.typ.fs[x].Type = TPtr(TBool)
  /\ last.pre[x] = <<>>
  /\ Declared(last.i.typ.fs[x]) = {body}
  /\ omitEmptyOf(last.i.typ.fs[x])
  /\ IndexComma(TagGet(last.i.typ.fs[x], body)) > 1

\* the key such a field names: its tag up to the comma
FlagKey(x) == paramNameOf(TagGet(last.i.typ.fs[x], body))

\* C20: a *bool field tagged `body:"a,omitempty"` tells an explicit false
\* from a key that was not provided: after Bind the field is nil when the
\* body does not hold the key, and points to the boolean the body holds
\* under the key otherwise, false included.
C20_ExplicitFalse ==
  \A x \in 1..(IF NormalCall THEN NumField(last.i.typ) ELSE 0) :
    OptionalFlag(x) =>
      /\ ~MapHas(last.out.b, FlagKey(x)) => last.out.val[x] = <<>>
      /\ (MapHas(last.out.b, FlagKey(x)) /\ last.out.b[FlagKey(x)].t = "bool") =>
           last.out.val[x] = <<last.out.b[FlagKey(x)].v>>

(***************************************************************************)
(* Properties of direct setField calls (SpecCoerce)                        *)
(***************************************************************************)
\* a negative integer or float, or a string that denotes a negative number
Negative(value) ==
  \/ value.t \in {"int", "float64"} /\ value.v < 0
  \/ /\ value.t = "string"
     /\ ~IsErr(ParseFloat(value.v).err)
     /\ ParseFloat(value.v).val < 0

\* C16: coercing a negative integer or float, or a string denoting a
\* negative number, into an unsigned-integer destination returns an error
\* and leaves the destination as it was; no wrapped value is stored.
C16_NegativeToUnsigned ==
  (co.done /\ co.typ = TUint /\ Negative(co.value)) =>
    /\ IsErr(co.out.err)
    /\ co.out.val = co.cur

\* the integer -5 was refused for an unsigned destination that held 999
C16_Witness ==
  /\ co.done /\ co.typ = TUint
  /\ co.value = RInt(0 - 5) /\ co.cur = Sentinel(TUint)
  /\ co.out.err = <<"cannot convert negative int to uint">>
  /\ co.out.val = Sentinel(TUint)


(***************************************************************************)
(* More properties of one Bind call (Spec)                                 *)
(***************************************************************************)
\* sub-field y of the nested record behind field x names, by its body
\* marker or else its json marker, a key of the object handed to field x
SubSupplied(x, y) ==
  /\ NestedKey(NestedType(x).fs[y]) # <<>>
  /\ MapHas(Resolved(x).v.v, NestedKey(NestedType(x).fs[y]))

\* what the coercion of that key's value leaves in sub-field y
SubCoerced(x, y) ==
  setField(AfterNull(NestedType(x).fs[y].Type, NestedPre(x)[y]),
           NestedType(x).fs[y].Type,
           Resolved(x).v.v[NestedKey(NestedType(x).fs[y])]).val

\* C21: when a field is a nested record (or a pointer to one) and its value
\* is a JSON object, and the bind succeeds, every sub-field whose body or
\* json marker names a key of the object holds the coerced value of that
\* key, and every other sub-field, those with only path, query or cookie
\* markers included, holds what it held before.
C21_NestedBinding ==
  \A x \in 1..(IF NormalCall THEN NumField(last.i.typ) ELSE 0) :
    (NestedBound(x) /\ last.out.err = NoErr) =>
      \A y \in 1..NumField(NestedType(x)) :
        IF SubSupplied(x, y)
          THEN NestedPost(x)[y] = SubCoerced(x, y)
          ELSE NestedPost(x)[y] = NestedPre(x)[y]

\* {"a":{"a":"n","b":42}} was bound to a nested record with sub-fields
\* Email (body a), Count (json b) and Q (query a): Email and Count are set,
\* Q is what it was
C21_Witness ==
  /\ NestedBound(1) /\ last.i.typ.fs[1].Type = Nested /\ last.out.err = NoErr
  /\ last.pre[1] = Sentinel(Nested)
  /\ last.out.val[1][1] = <<"n">>
  /\ last.out.val[1][2] = 42
  /\ last.out.val[1][3] = <<"sentinel">>


\* C22: in a Bind call Validate is invoked at most once; it is not invoked
\* when a field failed or the call panicked, nor when the destination has
\* no Validate; when the destination has Validate and no field failed it is
\* invoked exactly once.
C22_ValidateOnce ==
  calls > 0 =>
    /\ last.out.validated \in {0, 1}
    /\ IsPanic(last.out.err) => last.out.validated = 0
    /\ NormalCall =>
         /\ FirstFailing # 0 => last.out.validated = 0
         /\ ~last.i.typ.validator => last.out.validated = 0
         /\ (FirstFailing = 0 /\ last.i.typ.validator) => last.out.validated = 1

\* a destination with Validate had its three fields bound from query, body
\* and cookie, and was validated once
C22_Witness ==
  /\ NormalCall /\ last.i.typ.validator /\ NumField(last.i.typ) = 3
  /\ FirstFailing = 0
  /\ \A x \in 1..3 : Declared(last.i.typ.fs[x]) # {} /\ last.out.val[x] # last.pre[x]
  /\ last.out.validated = 1


\* the request arrived with a body of at least one byte whose content type
\* is recognized and whose content is well formed
BodyWellFormed ==
  /\ orig # <<>>
  /\ parseContentType(r.ContentType) \in
       {<<"application/json">>, <<"application/x-www-form-urlencoded">>}
  /\ ~IsErr(parseBody(r, orig).err)

\* C23: for a request that carries a body of at least one byte with a
\* recognized, well-formed content, Bind reads and decodes the full body,
\* whatever length the request declares (an unknown length included): the
\* body map is the decoded content, and a body-sourced field whose key the
\* content holds is bound from it.
C23_BodyReadWhateverLength ==
  (NormalCall /\ BodyWellFormed) =>
    \E decoded \in {parseBody(r, orig).m} :
      /\ last.out.b = decoded
      /\ \A x \in Processed :
           (/\ Declared(last.i.typ.fs[x]) \in {{body}, {jjson}}
            /\ MapHas(decoded, TagGet(last.i.typ.fs[x], Winner(last.i.typ.fs[x])))) =>
             Resolved(x).exists


\* omitempty is among the modifiers of the winning marker of the field: the
\* part of its value after the first comma
WinnerOmits(field) ==
  \E t \in {TagGet(field, Winner(field))} :
    /\ IndexComma(t) # 0
    /\ Contains(SubSeq(t, IndexComma(t) + 1, Len(t)), omitempty)

\* C24: the omit-empty policy of a field is decided by its winning marker
\* alone: an empty value that exists in the request is skipped when
\* omitempty is a modifier of the winning marker and is bound otherwise,
\* whatever the markers of lower precedence and the key name say.
C24_WinnerDecidesOmitEmpty ==
  \A x \in 1..(IF NormalCall THEN NumField(last.i.typ) ELSE 0) :
    (Supplied(x) /\ isEmptyValue(Resolved(x).v)) =>
      IF WinnerOmits(last.i.typ.fs[x])
        THEN last.out.val[x] = last.pre[x]
        ELSE last.out.val[x] = BindField(last.pre[x], last.i.typ.fs[x], Resolved(x).v).val


\* the key Bind looks up for a field in its winning source
LookupKey(field) ==
  IF Winner(field) = query THEN paramNameOf(TagGet(field, query))
  ELSE TagGet(field, Winner(field))

\* C25: the raw value of a field exists: for path, iff the path value is a
\* non-empty string; for query, iff the first query value of the key is
\* non-empty; for body and json, iff the key is in the body map, an empty
\* string included; for cookie, iff a cookie of that name is on the
\* request, whatever its value.  A field whose value does not exist is
\* skipped without error and keeps its value; one whose value exists is
\* bound from it unless it is omitted as empty.
C25_Existence ==
  \A x \in 1..(IF NormalCall THEN NumField(last.i.typ) ELSE 0) :
    (x \in Processed /\ Declared(last.i.typ.fs[x]) # {}) =>
      \E field \in {last.i.typ.fs[x]} :
        IF ~Holds(Winner(field), LookupKey(field))
          THEN last.out.val[x] = last.pre[x] /\ FirstFailing # x
          ELSE ~(omitEmptyOf(field) /\ isEmptyValue(ValueAt(Winner(field), LookupKey(field)))) =>
                 /\ last.out.val[x]
                      = BindField(last.pre[x], field, ValueAt(Winner(field), LookupKey(field))).val
                 /\ (FirstFailing = x)
                      = IsErr(BindField(last.pre[x], field,
                                        ValueAt(Winner(field), LookupKey(field))).err)

\* a string field bound from a cookie that is present with an empty value:
\* the field, which held a sentinel, is now empty
C25_Witness ==
  /\ NormalCall
  /\ last.i.typ.fs[1].Tag = Tag1(cookie, Ka) /\ last.i.typ.fs[1].Type = TString
  /\ Ka \in DOMAIN r.Cookies /\ r.Cookies[Ka] = <<>>
  /\ last.pre[1] = <<"sentinel">> /\ last.out.val[1] = <<>>
  /\ last.out.err = NoErr


\* C26: a field that carries none of the markers path, query, body, json,
\* cookie is inert: whatever the request holds and however the Bind call
\* ends, the field holds afterwards what it held before.
C26_UnmarkedInert ==
  \A x \in 1..(IF NormalCall THEN NumField(last.i.typ) ELSE 0) :
    last.i.typ.fs[x].Tag = NoTags => last.out.val[x] = last.pre[x]

\* a Bind call on a request with path, query, body and cookie values set
\* the first and the third field and left the unmarked second one alone
C26_Witness ==
  /\ NormalCall /\ NumField(last.i.typ) = 3
  /\ last.i.typ.fs[2].Tag = NoTags /\ last.out.val[2] = last.pre[2]
  /\ last.i.typ.fs[1].Tag # NoTags /\ last.out.val[1] # last.pre[1]
  /\ last.i.typ.fs[3].Tag # NoTags /\ last.out.val[3] # last.pre[3]
  /\ PathValue(r, Ka) # <<>> /\ QueryGet(r, Ka) # <<>>
  /\ MapHas(last.out.b, Ka) /\ Ka \in DOMAIN r.Cookies


(***************************************************************************)
(* More properties of concurrent getFieldInfo calls (SpecCache)            *)
(***************************************************************************)
\* the callers between Lock and the deferred Unlock
Writers == {c \in Callers : look[c].pc \in {"recheck", "build", "store", "Unlock"}}

\* the callers between RLock and RUnlock
Readers == {c \in Callers : look[c].pc \in {"read", "RUnlock"}}

\* C27: the cache is never written while a read of it is in flight: at most
\* one caller holds the exclusive lock, no caller holds the shared lock
\* while one holds the exclusive lock, and a caller that is about to write
\* the cache map is the holder of the exclusive lock.
C27_LockDiscipline ==
  /\ Cardinality(Writers) <= 1
  /\ Writers # {} => Readers = {}
  /\ fieldCacheMutex.readers = Cardinality(Readers)
  /\ \A c \in Callers :
       /\ c \in Writers <=> fieldCacheMutex.writer = c
       /\ look[c].pc = "store" => (Writers = {c} /\ Readers = {})

\* one caller is about to store its entry while a second waits for the
\* exclusive lock and a third for the shared lock
C27_Witness ==
  \E c1, c2, c3 \in Callers :
    /\ look[c1].pc = "store" /\ fieldCacheMutex.writer = c1
    /\ look[c2].pc = "Lock"
    /\ look[c3].pc = "RLock"


\* the fields of typ that carry at least one recognized marker
Marked(typ) == {x \in 1..NumField(typ) : Declared(typ.fs[x]) # {}}

\* C28: for every record type getFieldInfo returns one entry for each field
\* that has a non-empty recognized marker and none for the other fields,
\* and the entry of a field gives as source its first non-empty marker in
\* the order path, query, body, json, cookie, as key the part of that
\* marker's value before its first comma, and as omitEmpty whether
\* omitempty is among that marker's modifiers.
C28_FieldInfoTriples ==
  \A c \in Callers :
    look[c].pc = "done" =>
      \E typ \in {look[c].typ} : \E info \in {look[c].info} :
        /\ DOMAIN info = {typ.fs[x].Name : x \in Marked(typ)}
        /\ \A x \in Marked(typ) :
             /\ info[typ.fs[x].Name].Source = Winner(typ.fs[x])
             /\ info[typ.fs[x].Name].TagName
                  = paramNameOf(TagGet(typ.fs[x], Winner(typ.fs[x])))
             /\ info[typ.fs[x].Name].OmitEmpty = WinnerOmits(typ.fs[x])


\* every caller has returned and nobody holds the lock
AllReturned ==
  /\ \A c \in Callers : look[c].pc = "done"
  /\ fieldCacheMutex = Unlocked

\* C29: under fair scheduling every one of the concurrent getFieldInfo
\* calls, on seen and unseen types, eventually returns, and once all have
\* returned neither the shared nor the exclusive lock is held.
C29_AllReturn == <>[]AllReturned

\* all callers have returned, the lock is free, and among them one found
\* its type in a cache that held it from the start and one built its entry
C29_Witness ==
  /\ AllReturned
  /\ \E c \in Callers : look[c].how = "built"
  /\ \E c \in Callers : look[c].how = "read"
  /\ \E c1, c2 \in Callers : look[c1].typ # look[c2].typ


\* field x of the last call is a slice that was handed a JSON array
SliceBound(x) ==
  /\ Supplied(x)
  /\ ~SkipField(Resolved(x), last.i.typ.fs[x])
  /\ last.i.typ.fs[x].Type.k = "slice"
  /\ Resolved(x).v.t = "[]interface {}"

\* the positions of the array handed to field x whose element cannot be
\* coerced to the element type of the slice
BadElements(x) ==
  {n \in 1..Len(Resolved(x).v.v) :
     IsErr(setField(Zero(elemType(last.i.typ.fs[x].Type)),
                    elemType(last.i.typ.fs[x].Type), Resolved(x).v.v[n]).err)}

\* the first of them
FirstBad(x) == CHOOSE n \in BadElements(x) : \A o \in BadElements(x) : n <= o

\* C30: binding an array to a slice field is all-or-nothing: when the
\* coercion of an element fails, the error names the index of the first
\* failing element and the field keeps its whole previous value; no prefix
\* of converted elements is stored.
C30_SliceAllOrNothing ==
  \A x \in 1..(IF NormalCall THEN NumField(last.i.typ) ELSE 0) :
    (SliceBound(x) /\ BadElements(x) # {}) =>
      /\ last.out.val[x] = last.pre[x]
      /\ FirstFailing = x
      /\ Contains(last.out.err,
                  <<"error setting slice element at index ">>
                    \o NatDigits(FirstBad(x) - 1) \o <<": ">>)

\* [1,"x"] was bound to an []int field that held one element: the error
\* names index 1 and the field still holds that one element
C30_Witness ==
  /\ SliceBound(1) /\ last.i.typ.fs[1].Type = TSlice(TInt)
  /\ BadElements(1) = {2}
  /\ last.pre[1] = Sentinel(TSlice(TInt))
  /\ last.out.val[1] = Sentinel(TSlice(TInt))
  /\ Contains(last.out.err, <<"error setting slice element at index ", "1", ": ">>)

====
